---------------------------- MODULE Spec2Model ----------------------------
(***************************************************************************)
(* Model of the Ayurvedic diet-plan engine:                                *)
(*   backend/src/services/nutrition.js   (BMR, TDEE, calorie target,       *)
(*                                        macro targets, meal split)       *)
(*   backend/src/services/ruleEngine.js  (filter, scorer, greedy packer,   *)
(*                                        plan assembler)                  *)
(*                                                                         *)
(* Representation.                                                         *)
(*  - A JavaScript string is a sequence of one-character strings, so that  *)
(*    toLowerCase, includes, startsWith, split and trim are computed.      *)
(*    The empty sequence is the empty string; for the fields the code      *)
(*    reads through `x || default` it also stands for a missing field.     *)
(*  - A field whose absence the code tells apart from every value          *)
(*    (destructuring defaults, `??`) is an option: <<>> absent, <<v>> set. *)
(*  - Scores are multiples of 0.5 and are kept doubled (score2 = 2*score). *)
(*  - BMR is a multiple of 0.25 and is kept times four (bmr4).             *)
(*  - protein_100g is kept in hundredths of a gram.                        *)
(*  - A product X * c with a decimal literal c is an IEEE-754 double: the  *)
(*    literal carries its representation error, and comparisons and        *)
(*    Math.round of the product are decided as the double decides them.    *)
(***************************************************************************)
EXTENDS Integers, Sequences, FiniteSets, TLC

VARIABLES
    \* inputs of one call
    profile,          \* the caller's profile object
    foods,            \* the caller's food catalog (array of food objects)
    plan_type,        \* option: the plan_type argument
    targetCalories,   \* option: the explicit targetCalories argument
    month,            \* new Date().getMonth() + 1
    \* locals of buildPlan
    pc,               \* position in buildPlan / pickFoodForMeal
    allowedFoods,     \* catalog indices kept by the filter
    scored,           \* [f, score2, reasons] sorted by score, descending
    target,           \* option: resolved daily calorie target
    macroTargets,     \* option: getMacroTargets(profile)
    meals,            \* meal slots pushed so far
    totalCals,        \* running plan total
    idx,              \* index of the current meal slot (1-based)
    \* locals of pickFoodForMeal for the current slot
    items,            \* items picked so far
    kcal,             \* calories accumulated by the packer
    used,             \* keys (food_id || name) already used in the slot
    pos,              \* 1-based position of the loop in scored
    pass1,            \* option: [n, kcal, examined]: the items, the total and the
                      \* number of candidates looked at when pass 1 ended
    picks,            \* per slot pushed: what pickFoodForMeal returned, and pass1
    \* result
    plan,             \* option: the returned plan
    served,           \* the calls that have returned, in order: [args, plan]
    \* the calculator functions called on their own
    mealSplit,        \* option: a call of distributeMealCalories and its result
    foodMacros        \* option: calls of calculateFoodMacros and their results

vars == <<profile, foods, plan_type, targetCalories, month, pc, allowedFoods,
          scored, target, macroTargets, meals, totalCals, idx, items, kcal,
          used, pos, pass1, picks, plan, served, mealSplit, foodMacros>>

-----------------------------------------------------------------------------
(* Options *)

None == <<>>
Some(v) == <<v>>
IsSome(o) == o # <<>>
Get(o) == o[1]
\* o ?? d
OrElse(o, d) == IF IsSome(o) THEN Get(o) ELSE d

-----------------------------------------------------------------------------
(* Strings *)

UpperLetters == <<"A","B","C","D","E","F","G","H","I","J","K","L","M",
                  "N","O","P","Q","R","S","T","U","V","W","X","Y","Z">>
LowerLetters == <<"a","b","c","d","e","f","g","h","i","j","k","l","m",
                  "n","o","p","q","r","s","t","u","v","w","x","y","z">>

LowerMap == [c \in {UpperLetters[k] : k \in 1..26} |->
                LowerLetters[CHOOSE k \in 1..26 : UpperLetters[k] = c]]
UpperMap == [c \in {LowerLetters[k] : k \in 1..26} |->
                UpperLetters[CHOOSE k \in 1..26 : LowerLetters[k] = c]]

\* a letter's lower-case (upper-case) form; any other character is unchanged
LowerChar(c) == IF c \in DOMAIN LowerMap THEN LowerMap[c] ELSE c
UpperChar(c) == IF c \in DOMAIN UpperMap THEN UpperMap[c] ELSE c

\* String.prototype.toLowerCase / toUpperCase
toLowerCase(s) == [k \in DOMAIN s |-> LowerChar(s[k])]
toUpperCase(s) == [k \in DOMAIN s |-> UpperChar(s[k])]

\* String.prototype.startsWith
startsWith(s, pre) ==
    /\ Len(pre) <= Len(s)
    /\ \A k \in 1..Len(pre) : s[k] = pre[k]

\* String.prototype.includes (substring search)
includes(s, sub) ==
    \E o \in 0..(Len(s) - Len(sub)) : \A k \in 1..Len(sub) : s[o + k] = sub[k]

\* Array.prototype.includes (element search, strict equality)
arrayIncludes(a, x) == \E k \in DOMAIN a : a[k] = x

\* String.prototype.trim (blanks only)
RECURSIVE trimStart(_)
trimStart(s) == IF s # <<>> /\ Head(s) = " " THEN trimStart(Tail(s)) ELSE s
RECURSIVE trimEnd(_)
trimEnd(s) ==
    IF s # <<>> /\ s[Len(s)] = " " THEN trimEnd(SubSeq(s, 1, Len(s) - 1)) ELSE s
trim(s) == trimEnd(trimStart(s))

\* String.prototype.split(','): the pieces between commas; '' gives ['']
RECURSIVE splitFrom(_, _)
splitFrom(s, cur) ==
    IF s = <<>> THEN <<cur>>
    ELSE IF Head(s) = "," THEN <<cur>> \o splitFrom(Tail(s), <<>>)
    ELSE splitFrom(Tail(s), Append(cur, Head(s)))
split(s) == splitFrom(s, <<>>)

\* typeof x === 'string' ? x.split(',').map(s => s.trim().toLowerCase()) : []
\* (a missing tag field is not a string; an empty string gives [''])
tagList(s) ==
    IF s = <<>> THEN <<>>
    ELSE [k \in DOMAIN split(s) |-> toLowerCase(trim(split(s)[k]))]

-----------------------------------------------------------------------------
(* IEEE-754 products with decimal literals *)

\* The double nearest the literal n/d is n/d + (e/20) * 2^-53.
Dbl(n, d, e) == [n |-> n, d |-> d, e |-> e]

\* The number NaN, which arithmetic gives when an operand is no number.  It is
\* written as an integer outside the range of every number computed here, and
\* every operation on numbers below gives what JavaScript gives for it: NaN
\* from arithmetic and Math.round, false from every comparison.
NaN == -(2^30)
isNaN(x) == x = NaN

\* a factor that is no number (a function or an object read from a table)
NaNFactor == Dbl(0, 0, 0)

\* a + b and a - b
Plus(a, b) == IF isNaN(a) \/ isNaN(b) THEN NaN ELSE a + b
Minus(a, b) == IF isNaN(a) \/ isNaN(b) THEN NaN ELSE a - b

Abs(x) == IF x < 0 THEN -x ELSE x
Sgn(x) == IF x > 0 THEN 1 ELSE IF x < 0 THEN -1 ELSE 0

\* floor(a / b) for b > 0
FloorDiv(a, b) == IF a >= 0 THEN a \div b ELSE -((-a + b - 1) \div b)

\* largest power of two <= w, for w >= 1
RECURSIVE Pow2Floor(_)
Pow2Floor(w) == IF w < 2 THEN 1 ELSE 2 * Pow2Floor(w \div 2)

\* For X = xn/xd and v = X * n/d with 2v an integer (v is then a double):
\* the sign of (the double X * c) - v.  The exact product is
\* v + X * (e/20) * 2^-53 and is rounded to v unless that offset exceeds half
\* the spacing of doubles at v.
FloatDev(xn, xd, c) ==
    LET w == Abs(2 * xn * c.n) \div (xd * c.d)
    IN  IF w = 0 THEN 0
        ELSE IF Abs(xn * c.e) > 10 * xd * Pow2Floor(w)
             THEN Sgn(xn) * Sgn(c.e) ELSE 0

\* Math.round(X * c): nearest integer, halves toward +infinity
RoundMul(xn, xd, c) ==
    LET num == xn * c.n
        den == xd * c.d
    IN  IF isNaN(xn) \/ c = NaNFactor THEN NaN
        ELSE IF (2 * num) % den = 0 /\ FloorDiv(2 * num, den) % 2 = 1
        THEN LET n == FloorDiv(FloorDiv(2 * num, den) - 1, 2)
             IN  IF FloatDev(xn, xd, c) < 0 THEN n ELSE n + 1
        ELSE FloorDiv(2 * num + den, 2 * den)

\* k >= X * c, k an integer
GeqMul(k, x, c) ==
    IF isNaN(k) \/ isNaN(x) THEN FALSE
    ELSE IF k * c.d # x * c.n THEN k * c.d > x * c.n
    ELSE ~(FloatDev(x, 1, c) > 0)

\* a comparison that always succeeds
LeqMulAlways(k, x, c) == TRUE

\* k <= X * c, k an integer
LeqMul(k, x, c) ==
    IF isNaN(k) \/ isNaN(x) THEN FALSE
    ELSE IF k * c.d # x * c.n THEN k * c.d < x * c.n
    ELSE ~(FloatDev(x, 1, c) < 0)

\* k < X * c, k an integer
LtMul(k, x, c) == ~isNaN(k) /\ ~isNaN(x) /\ ~GeqMul(k, x, c)

\* Math.round(a / b) for integers a, b > 0 of an exact quotient or half
RoundDiv(a, b) == FloorDiv(2 * a + b, 2 * b)

\* floor(log2(w)) for w >= 1
RECURSIVE Log2Floor(_)
Log2Floor(w) == IF w < 2 THEN 0 ELSE 1 + Log2Floor(w \div 2)

\* The number n / 10 of one decimal is the double nearest to it.  With
\* 2^e <= n/10 < 2^(e+1) that double is a multiple of 2^(e-52):
\* TenthExp(n) is e, and TenthDev(n) is (the double) - n/10 in units of
\* 2^-56 / 10.
TenthExp(n) == Log2Floor((16 * n) \div 10) - 4
Pow2Mod10(s) == <<6, 2, 4, 8>>[(s % 4) + 1]
TenthDev(n) ==
    IF n = 0 THEN 0
    ELSE LET r == ((n % 10) * Pow2Mod10(52 - TenthExp(n))) % 10
         IN  (IF r < 5 THEN -r ELSE 10 - r) * Pow2Floor((16 * n) \div 10)

\* Math.abs(a/10 - 2 * (b/10)) <= 0.1 on the doubles, for a, b >= 0 in tenths
\* (doubling is exact, and so is the difference of doubles this close)
AbsDiffDoubleLeqTenth(a, b) ==
    LET d == a - 2 * b
    IN  IF d = 0 THEN TRUE
        ELSE IF Abs(d) > 1 THEN FALSE
        ELSE Sgn(d) * (TenthDev(a) - 2 * TenthDev(b)) <= TenthDev(1)


-----------------------------------------------------------------------------
(* String literals of the code *)

S_M == <<"M">>
S_F == <<"F">>
S_O == <<"O">>
S_sedentary == <<"s","e","d","e","n","t","a","r","y">>
S_light == <<"l","i","g","h","t">>
S_moderate == <<"m","o","d","e","r","a","t","e">>
S_active == <<"a","c","t","i","v","e">>
S_very_active == <<"v","e","r","y","_","a","c","t","i","v","e">>
S_weight_loss == <<"w","e","i","g","h","t","_","l","o","s","s">>
S_Weight_Loss == <<"W","e","i","g","h","t"," ","L","o","s","s">>
S_weight_gain == <<"w","e","i","g","h","t","_","g","a","i","n">>
S_Weight_Gain == <<"W","e","i","g","h","t"," ","G","a","i","n">>
S_muscle_gain == <<"m","u","s","c","l","e","_","g","a","i","n">>
S_Muscle_Gain == <<"M","u","s","c","l","e"," ","G","a","i","n">>
S_maintain_health == <<"m","a","i","n","t","a","i","n","_","h","e","a","l","t","h">>
S_Vata == <<"V","a","t","a">>
S_Pitta == <<"P","i","t","t","a">>
S_Kapha == <<"K","a","p","h","a">>
S_Vata_Pitta == <<"V","a","t","a","-","P","i","t","t","a">>
S_Pitta_Kapha == <<"P","i","t","t","a","-","K","a","p","h","a">>
S_Vata_Kapha == <<"V","a","t","a","-","K","a","p","h","a">>
S_diabetes == <<"d","i","a","b","e","t","e","s">>
S_hypertension == <<"h","y","p","e","r","t","e","n","s","i","o","n">>
S_salty == <<"s","a","l","t","y">>
S_sweet == <<"s","w","e","e","t">>
S_sour == <<"s","o","u","r">>
S_pungent == <<"p","u","n","g","e","n","t">>
S_bitter == <<"b","i","t","t","e","r">>
S_astringent == <<"a","s","t","r","i","n","g","e","n","t">>
S_dry == <<"d","r","y">>
S_heavy == <<"h","e","a","v","y">>
S_unctuous == <<"u","n","c","t","u","o","u","s">>
S_heating == <<"h","e","a","t","i","n","g">>
S_cooling == <<"c","o","o","l","i","n","g">>
S_balancing == <<"b","a","l","a","n","c","i","n","g">>
S_tridosha == <<"t","r","i","d","o","s","h","a">>
S_all == <<"a","l","l">>
S_spring == <<"s","p","r","i","n","g">>
S_monsoon == <<"m","o","n","s","o","o","n">>
S_autumn == <<"a","u","t","u","m","n">>
S_winter == <<"w","i","n","t","e","r">>
S_summer == <<"s","u","m","m","e","r">>
S_grain == <<"g","r","a","i","n">>
S_legume == <<"l","e","g","u","m","e">>
S_vegetable == <<"v","e","g","e","t","a","b","l","e">>
S_fruit == <<"f","r","u","i","t">>
S_nut == <<"n","u","t">>
S_dairy == <<"d","a","i","r","y">>
S_protein == <<"p","r","o","t","e","i","n">>
S_other == <<"o","t","h","e","r">>
S_leafy_vegetable == <<"l","e","a","f","y","_","v","e","g","e","t","a","b","l","e">>
S_root_vegetable == <<"r","o","o","t","_","v","e","g","e","t","a","b","l","e">>
S_nut_seed == <<"n","u","t","_","s","e","e","d">>
S_sweetener == <<"s","w","e","e","t","e","n","e","r">>
S_spice == <<"s","p","i","c","e">>
S_rice == <<"r","i","c","e">>
S_wheat == <<"w","h","e","a","t">>
S_millet == <<"m","i","l","l","e","t">>
S_dal == <<"d","a","l">>
S_bean == <<"b","e","a","n">>
S_lentil == <<"l","e","n","t","i","l">>
S_seed == <<"s","e","e","d">>

-----------------------------------------------------------------------------
(* nutrition.js *)

\* 4 * calculateBMR(profile): Mifflin-St Jeor with the destructuring defaults
\* sex 'M', height 170, weight 70; age is age_years, else the whole years
\* since dob (profile.dob holds that number), else 25.
calculateBMR4(p) ==
    LET sex == OrElse(p.sex, S_M)
        height_cm == OrElse(p.height_cm, 170)
        weight_kg == OrElse(p.weight_kg, 70)
        age == IF IsSome(p.age_years) THEN Get(p.age_years)
               ELSE IF IsSome(p.dob) THEN Get(p.dob) ELSE 25
        s == IF sex = S_M THEN 5 ELSE -161
    IN  40 * weight_kg + 25 * height_cm - 20 * age + 4 * s

\* the names every object literal inherits from Object.prototype: looking one
\* up in a table gives a function (an object for __proto__), not undefined
ObjectPrototypeMembers ==
    { <<"c","o","n","s","t","r","u","c","t","o","r">>,
      <<"t","o","S","t","r","i","n","g">>,
      <<"t","o","L","o","c","a","l","e","S","t","r","i","n","g">>,
      <<"v","a","l","u","e","O","f">>,
      <<"h","a","s","O","w","n","P","r","o","p","e","r","t","y">>,
      <<"i","s","P","r","o","t","o","t","y","p","e","O","f">>,
      <<"p","r","o","p","e","r","t","y","I","s","E","n","u","m","e","r","a","b","l","e">>,
      <<"_","_","p","r","o","t","o","_","_">>,
      <<"_","_","d","e","f","i","n","e","G","e","t","t","e","r","_","_">>,
      <<"_","_","d","e","f","i","n","e","S","e","t","t","e","r","_","_">>,
      <<"_","_","l","o","o","k","u","p","G","e","t","t","e","r","_","_">>,
      <<"_","_","l","o","o","k","u","p","S","e","t","t","e","r","_","_">> }

\* factors[activity_level] ?? 1.55: the table's value for its five keys, the
\* inherited member for a name of Object.prototype (not nullish, and no
\* number when multiplied), 1.55 for every other string
activityFactor(level) ==
    IF level = S_sedentary THEN Dbl(6, 5, -8)
    ELSE IF level = S_light THEN Dbl(11, 8, 0)
    ELSE IF level = S_moderate THEN Dbl(31, 20, 8)
    ELSE IF level = S_active THEN Dbl(69, 40, 16)
    ELSE IF level = S_very_active THEN Dbl(19, 10, -16)
    ELSE IF level \in ObjectPrototypeMembers THEN NaNFactor
    ELSE Dbl(31, 20, 8)

\* Math.round(bmr * factor); NaN when the factor is no number
calculateTDEE(p) ==
    RoundMul(calculateBMR4(p), 4, activityFactor(OrElse(p.activity_level, S_moderate)))

calculateTargetCalories(p) ==
    LET tdee == calculateTDEE(p)
        goals == p.health_goals
    IN  IF arrayIncludes(goals, S_weight_loss) \/ arrayIncludes(goals, S_Weight_Loss)
        THEN RoundMul(tdee, 1, Dbl(4, 5, 8))
        ELSE IF arrayIncludes(goals, S_weight_gain) \/ arrayIncludes(goals, S_Weight_Gain)
        THEN RoundMul(tdee, 1, Dbl(23, 20, -16))
        ELSE IF arrayIncludes(goals, S_muscle_gain)
        THEN RoundMul(tdee, 1, Dbl(11, 10, 16))
        ELSE tdee

MacroTriple(pr, c, f) == [protein |-> pr, carbs |-> c, fats |-> f]

\* the table with the Kapha row mistyped
getMacroTargetsKaphaTypo(p) ==
    LET goals == p.health_goals
        dosha == IF IsSome(p.dosha_result) /\ Get(p.dosha_result) # <<>>
                 THEN Get(p.dosha_result) ELSE S_Vata
    IN  IF arrayIncludes(goals, S_weight_loss) THEN MacroTriple(30, 40, 30)
        ELSE IF arrayIncludes(goals, S_muscle_gain) THEN MacroTriple(25, 50, 25)
        ELSE IF includes(dosha, S_Vata) THEN MacroTriple(20, 50, 30)
        ELSE IF includes(dosha, S_Pitta) THEN MacroTriple(20, 55, 25)
        ELSE IF includes(dosha, S_Kapha) THEN MacroTriple(25, 45, 35)
        ELSE MacroTriple(20, 55, 25)

getMacroTargets(p) ==
    LET goals == p.health_goals
        dosha == IF IsSome(p.dosha_result) /\ Get(p.dosha_result) # <<>>
                 THEN Get(p.dosha_result) ELSE S_Vata
    IN  IF arrayIncludes(goals, S_weight_loss) THEN MacroTriple(30, 40, 30)
        ELSE IF arrayIncludes(goals, S_muscle_gain) THEN MacroTriple(25, 50, 25)
        ELSE IF includes(dosha, S_Vata) THEN MacroTriple(20, 50, 30)
        ELSE IF includes(dosha, S_Pitta) THEN MacroTriple(20, 55, 25)
        ELSE IF includes(dosha, S_Kapha) THEN MacroTriple(25, 45, 30)
        ELSE MacroTriple(20, 55, 25)

\* scale = grams / 100 is a double, and so is each product with it.  A product
\* differs from the exact one by less than 2^-40, so Math.round gives the exact
\* nearest integer unless the exact product is a half.  Of the halves that the
\* catalog's values give with 1..450 grams, these fall below the half as
\* doubles and round down: <<calories_100g (hundredths), grams>> for calories,
\* <<hundredths per 100 g, grams>> for protein, carbs and fats.
CaloriesBelowHalf == {<<65500, 70>>, <<65500, 230>>, <<65500, 410>>}
TenthsBelowHalf == {<<125, 188>>, <<125, 228>>, <<125, 236>>, <<125, 332>>}

\* Math.round((calories_100g || 0) * scale), cal given in hundredths
roundCalories(cal, grams) ==
    IF isNaN(grams) THEN NaN
    ELSE RoundDiv(cal * grams, 10000)
            - (IF <<cal, grams>> \in CaloriesBelowHalf THEN 1 ELSE 0)

\* Math.round((v || 0) * scale * 10), v given in hundredths: the result in tenths
roundTenths(v, grams) ==
    IF isNaN(grams) THEN NaN
    ELSE RoundDiv(v * grams, 1000)
            - (IF <<v, grams>> \in TenthsBelowHalf THEN 1 ELSE 0)

\* calculateFoodMacros with scale taken from the default grams = 100
calculateFoodMacrosPer100(food, grams) ==
    [calories |-> roundCalories(food.calories_100g, 100),
     protein |-> roundTenths(food.protein_100g, 100),
     carbs |-> roundTenths(food.carbs_100g, 100),
     fats |-> roundTenths(food.fat_100g, 100)]

\* calculateFoodMacros(food, grams); protein, carbs and fats in tenths of a
\* gram: the returned number is the double n / 10
calculateFoodMacros(food, grams) ==
    [calories |-> roundCalories(food.calories_100g, grams),
     protein |-> roundTenths(food.protein_100g, grams),
     carbs |-> roundTenths(food.carbs_100g, grams),
     fats |-> roundTenths(food.fat_100g, grams)]

\* the four-meal row in the order breakfast, lunch, dinner, snack
mealDistributionSnackLast(mealCount) ==
    IF mealCount = 4
    THEN <<Dbl(1, 4, 0), Dbl(7, 20, -4), Dbl(3, 10, -2), Dbl(1, 10, 1)>>
    ELSE IF mealCount = 5
    THEN <<Dbl(1, 5, 2), Dbl(3, 10, -2), Dbl(1, 10, 1), Dbl(3, 10, -2), Dbl(1, 10, 1)>>
    ELSE <<Dbl(3, 10, -2), Dbl(2, 5, 4), Dbl(3, 10, -2)>>

\* distributions[mealCount] || distributions[3]
mealDistribution(mealCount) ==
    IF mealCount = 4
    THEN <<Dbl(1, 4, 0), Dbl(7, 20, -4), Dbl(1, 10, 1), Dbl(3, 10, -2)>>
    ELSE IF mealCount = 5
    THEN <<Dbl(1, 5, 2), Dbl(3, 10, -2), Dbl(1, 10, 1), Dbl(3, 10, -2), Dbl(1, 10, 1)>>
    ELSE <<Dbl(3, 10, -2), Dbl(2, 5, 4), Dbl(3, 10, -2)>>

distributeMealCalories(totalCalories, mealCount) ==
    LET dist == mealDistribution(mealCount)
    IN  [k \in DOMAIN dist |-> RoundMul(totalCalories, 1, dist[k])]

-----------------------------------------------------------------------------
(* ruleEngine.js: helpers *)

\* A food of the catalog carries the fields the seeding script writes:
\* food_id, name, dosha_impact, tastes, qualities, energy, season,
\* calories_100g, protein_100g, notes, type.  The fallbacks to fields the
\* catalog does not carry (dosha_tags, virya, calories, protein) read a
\* missing field.  calories_100g and calories_per_100g are in hundredths of a
\* kcal, 0 when the field is 0 or missing (the packer and the calculator read
\* both alike).  A food may also carry id, and a document
\* read from the database carries _id: the field _id holds the text that
\* String(f._id) gives (the hex digits of the ObjectId), None when the food
\* has no _id.

\* profile.dosha_result || inferDosha(profile)
resolveDosha(p) ==
    IF IsSome(p.dosha_result) /\ Get(p.dosha_result) # <<>>
    THEN Get(p.dosha_result) ELSE S_Vata

\* the quarter mapping with the months 6-8 named summer
getSeasonFromMonthWithSummer(m) ==
    IF m >= 3 /\ m <= 5 THEN S_spring
    ELSE IF m >= 6 /\ m <= 8 THEN S_summer
    ELSE IF m >= 9 /\ m <= 11 THEN S_autumn
    ELSE S_winter

getSeasonFromMonth(m) ==
    IF m >= 3 /\ m <= 5 THEN S_spring
    ELSE IF m >= 6 /\ m <= 8 THEN S_monsoon
    ELSE IF m >= 9 /\ m <= 11 THEN S_autumn
    ELSE S_winter

isContra(p, food) ==
    LET conditions == p.medical_conditions
    IN  \/ /\ arrayIncludes(conditions, S_diabetes)
           /\ startsWith(toLowerCase(food.food_id), <<"i">>)
        \/ /\ arrayIncludes(conditions, S_hypertension)
           /\ includes(food.tastes, S_salty)

\* new Set(list.map(s => s.toLowerCase()))
lowerSet(list) == {toLowerCase(list[k]) : k \in DOMAIN list}

\* the filter comparing allergy entries as written, without lower-casing
isAllowedExactAllergy(p, food) ==
    /\ toLowerCase(food.name) \notin lowerSet(p.disliked)
    /\ food.name \notin {p.allergies[k] : k \in DOMAIN p.allergies}
    /\ ~isContra(p, food)

\* the predicate of foods.filter(...) in buildPlan
isAllowed(p, food) ==
    /\ toLowerCase(food.name) \notin lowerSet(p.disliked)
    /\ toLowerCase(food.name) \notin lowerSet(p.allergies)
    /\ ~isContra(p, food)

\* a filter that keeps every food of the catalog
filterKeepAll(p, fs, k) == [i \in 1..(Len(fs) - k + 1) |-> k + i - 1]

\* Array.prototype.filter over the catalog, as the kept indices in order
RECURSIVE filterFrom(_, _, _)
filterFrom(p, fs, k) ==
    IF k > Len(fs) THEN <<>>
    ELSE (IF isAllowed(p, fs[k]) THEN <<k>> ELSE <<>>) \o filterFrom(p, fs, k + 1)

RECURSIVE SumSeq(_)
SumSeq(q) == IF q = <<>> THEN 0 ELSE Head(q) + SumSeq(Tail(q))

\* one taste's adjustment, doubled
rasaScore2(userDosha, rasa) ==
    LET a == rasa \in {S_pungent, S_sour, S_salty}
        b == rasa \in {S_sweet, S_bitter, S_astringent}
        c == rasa \in {S_sweet, S_sour, S_salty}
        d == rasa \in {S_pungent, S_bitter, S_astringent}
    IN  IF userDosha = S_Pitta THEN (IF a THEN -2 ELSE 0) + (IF b THEN 2 ELSE 0)
        ELSE IF userDosha = S_Kapha THEN (IF c THEN -2 ELSE 0) + (IF d THEN 2 ELSE 0)
        ELSE IF userDosha = S_Vata THEN (IF c THEN 2 ELSE 0) + (IF d THEN -2 ELSE 0)
        ELSE 0

\* one quality's adjustment, doubled
gunaScore2(userDosha, guna) ==
    LET dl == guna \in {S_dry, S_light}
        hu == guna \in {S_heavy, S_unctuous}
    IN  IF userDosha = S_Vata THEN (IF dl THEN -2 ELSE 0) + (IF hu THEN 2 ELSE 0)
        ELSE IF userDosha = S_Kapha THEN (IF hu THEN -2 ELSE 0) + (IF dl THEN 2 ELSE 0)
        ELSE 0

\* the energy adjustment matching the user's dosha by substring
viryaScore2BySubstring(userDosha, energy) ==
    LET virya == toLowerCase(energy)
    IN  IF virya = <<>> THEN 0
        ELSE (IF includes(userDosha, S_Pitta) /\ virya = S_heating THEN -2 ELSE 0)
           + (IF includes(userDosha, S_Pitta) /\ virya = S_cooling THEN 2 ELSE 0)
           + (IF includes(userDosha, S_Vata) /\ virya = S_cooling THEN -1 ELSE 0)
           + (IF includes(userDosha, S_Kapha) /\ virya = S_cooling THEN -1 ELSE 0)

\* the energy adjustment, doubled
viryaScore2(userDosha, energy) ==
    LET virya == toLowerCase(energy)
    IN  IF virya = <<>> THEN 0
        ELSE (IF userDosha = S_Pitta /\ virya = S_heating THEN -2 ELSE 0)
           + (IF userDosha = S_Pitta /\ virya = S_cooling THEN 2 ELSE 0)
           + (IF userDosha = S_Vata /\ virya = S_cooling THEN -1 ELSE 0)
           + (IF userDosha = S_Kapha /\ virya = S_cooling THEN -1 ELSE 0)

\* the dosha-impact adjustment, doubled: /balancing|tridosha/i and includes(userDosha)
impactScore2(userDosha, impact) ==
    (IF \/ includes(toLowerCase(impact), S_balancing)
        \/ includes(toLowerCase(impact), S_tridosha) THEN 2 ELSE 0)
  + (IF impact # <<>> /\ includes(impact, userDosha) THEN -1 ELSE 0)

\* 2 * scoreDoshaComprehensive(userDosha, food)
scoreDoshaComprehensive2(userDosha, food) ==
    LET rasas == tagList(food.tastes)
        gunas == tagList(food.qualities)
    IN  impactScore2(userDosha, food.dosha_impact)
      + SumSeq([k \in DOMAIN rasas |-> rasaScore2(userDosha, rasas[k])])
      + SumSeq([k \in DOMAIN gunas |-> gunaScore2(userDosha, gunas[k])])
      + viryaScore2(userDosha, food.energy)

\* the season match without the test for 'all'
scoreSeasonMatchWithoutAll2(season, food) ==
    LET s == toLowerCase(food.season)
    IN  IF s = <<>> THEN 0
        ELSE IF includes(s, season) THEN 1 ELSE 0

\* 2 * scoreSeasonMatch(season, food)
scoreSeasonMatch2(season, food) ==
    LET s == toLowerCase(food.season)
    IN  IF s = <<>> THEN 0
        ELSE IF includes(s, S_all) THEN 1
        ELSE IF includes(s, season) THEN 1 ELSE 0

\* 2 * scoreNutrition(profile, food); protein_100g is in hundredths of a gram
\* and calories_100g in hundredths of a kcal
scoreNutrition2(p, food) ==
    LET goals == p.health_goals
        protein == food.protein_100g
        calories == food.calories_100g
    IN  (IF arrayIncludes(goals, S_weight_loss) \/ arrayIncludes(goals, S_Weight_Loss)
         THEN (IF protein >= 1000 THEN 2 ELSE 0) + (IF calories < 15000 THEN 1 ELSE 0)
         ELSE 0)
      + (IF arrayIncludes(goals, S_muscle_gain) \/ arrayIncludes(goals, S_Weight_Gain)
         THEN (IF protein >= 1500 THEN 3 ELSE 0) + (IF calories > 20000 THEN 1 ELSE 0)
         ELSE 0)
      + (IF protein >= 800 THEN 1 ELSE 0)

\* W.prefPenalty when the name is in the disliked set, doubled
prefPenalty2(p, food) ==
    IF toLowerCase(food.name) \in lowerSet(p.disliked) THEN 4 ELSE 0

\* the scores added without the weight of the dosha score
scoreEntryUnweighted(p, fs, m, fi) ==
    LET f == fs[fi]
        sDosha == scoreDoshaComprehensive2(resolveDosha(p), f)
        sSeason == scoreSeasonMatch2(getSeasonFromMonth(m), f)
        sNut == scoreNutrition2(p, f)
    IN  [f |-> fi,
         score2 |-> sDosha + sSeason + sNut - prefPenalty2(p, f),
         reasons |-> [sDosha2 |-> sDosha, sSeason2 |-> sSeason, sNut2 |-> sNut]]

\* the element built by allowedFoods.map(...) for catalog index fi
scoreEntry(p, fs, m, fi) ==
    LET f == fs[fi]
        sDosha == scoreDoshaComprehensive2(resolveDosha(p), f)
        sSeason == scoreSeasonMatch2(getSeasonFromMonth(m), f)
        sNut == scoreNutrition2(p, f)
    IN  [f |-> fi,
         score2 |-> 3 * sDosha + sSeason + sNut - prefPenalty2(p, f),
         reasons |-> [sDosha2 |-> sDosha, sSeason2 |-> sSeason, sNut2 |-> sNut]]

\* insertion of e behind every entry whose score is not lower (stable)
RECURSIVE insertDesc(_, _)
insertDesc(q, e) ==
    IF q = <<>> THEN <<e>>
    ELSE IF Head(q).score2 >= e.score2 THEN <<Head(q)>> \o insertDesc(Tail(q), e)
    ELSE <<e>> \o q

\* Array.prototype.sort((a, b) => b.score - a.score): stable, descending
RECURSIVE sortDesc(_)
sortDesc(q) ==
    IF q = <<>> THEN <<>>
    ELSE insertDesc(sortDesc(SubSeq(q, 1, Len(q) - 1)), q[Len(q)])

\* inferType(food_id) of the seeding script: the catalog's type map by the
\* first letter of the identifier
inferType(food_id) ==
    IF food_id = <<>> THEN S_other
    ELSE LET prefix == UpperChar(food_id[1])
         IN  CASE prefix = "A" -> S_grain
               [] prefix = "B" -> S_legume
               [] prefix = "C" -> S_leafy_vegetable
               [] prefix = "D" -> S_vegetable
               [] prefix = "E" -> S_fruit
               [] prefix = "F" -> S_nut_seed
               [] prefix = "G" -> S_spice
               [] prefix = "H" -> S_root_vegetable
               [] prefix = "I" -> S_sweetener
               [] prefix = "J" -> S_sweetener
               [] prefix = "K" -> S_dairy
               [] prefix = "L" -> S_protein
               [] OTHER -> S_other

inferFoodType(food) ==
    LET name == toLowerCase(food.name)
        notes == toLowerCase(food.notes)
        id == toUpperCase(food.food_id)
    IN  IF includes(name, S_rice) \/ includes(name, S_wheat) \/ includes(name, S_millet)
        THEN S_grain
        ELSE IF includes(name, S_dal) \/ includes(name, S_bean) \/ includes(name, S_lentil)
        THEN S_legume
        ELSE IF includes(notes, S_vegetable) \/ startsWith(id, <<"D">>) THEN S_vegetable
        ELSE IF includes(notes, S_fruit) \/ startsWith(id, <<"E">>) THEN S_fruit
        ELSE IF includes(name, S_nut) \/ includes(name, S_seed) THEN S_nut
        ELSE IF startsWith(id, <<"K">>) THEN S_dairy
        ELSE IF startsWith(id, <<"L">>) THEN S_protein
        ELSE S_other

\* f.type || inferFoodType(f)
foodTypeOf(food) == IF food.type # <<>> THEN food.type ELSE inferFoodType(food)

\* f.food_id || f.name
usedKey(food) == IF food.food_id # <<>> THEN food.food_id ELSE food.name

\* Number(f.calories_100g || f.calories_per_100g || 100), in hundredths
kPer100Of(food) ==
    IF food.calories_100g # 0 THEN food.calories_100g
    ELSE IF food.calories_per_100g # 0 THEN food.calories_per_100g
    ELSE 10000

\* the cap of the main meals for every meal type
maxItemsAlwaysThree(mt) == 3

\* line 185: const maxItems = mealType === 'snack' ? 2 : 3
maxItemsOf(mt) == IF mt = "snack" THEN 2 ELSE 3

\* mealPrefs[mealType] || []
mealPrefs(mealType) ==
    IF mealType = "breakfast" THEN <<S_grain, S_fruit, S_dairy, S_nut>>
    ELSE IF mealType = "lunch" THEN <<S_grain, S_legume, S_vegetable, S_protein>>
    ELSE IF mealType = "snack" THEN <<S_fruit, S_nut, S_dairy>>
    ELSE IF mealType = "dinner" THEN <<S_grain, S_legume, S_vegetable, S_protein>>
    ELSE <<>>

\* baseSizes[mealType] || 120
baseSize(mealType) ==
    IF mealType = "breakfast" THEN 120
    ELSE IF mealType = "lunch" THEN 150
    ELSE IF mealType = "snack" THEN 80
    ELSE IF mealType = "dinner" THEN 130
    ELSE 120

Max(a, b) == IF a >= b THEN a ELSE b
Min(a, b) == IF a <= b THEN a ELSE b

\* the portion with the quotient taken over kPer100 itself
calculatePortionSizeWithoutFloor(food, remainingCal, mealType) ==
    LET kPer100 == kPer100Of(food)
        base == baseSize(mealType)
        calculated == RoundDiv(10000 * remainingCal, kPer100)
    IN  IF isNaN(remainingCal) THEN NaN
        ELSE Max(50, Min(calculated, RoundMul(base, 1, Dbl(3, 2, 0))))

\* Math.round((remainingCal / Math.max(kPer100, 1)) * 100), clamped; kPer100
\* in hundredths, so the divisor is at least 100 hundredths.
\* (a kPer100 of the catalog above 1 is a whole number and no multiple of 8,
\* so the quotient times 100 is never a half and the double rounds as the
\* exact value; with the divisor 1 the quotient times 100 is a whole number)
calculatePortionSize(food, remainingCal, mealType) ==
    LET kPer100 == kPer100Of(food)
        base == baseSize(mealType)
        calculated == RoundDiv(10000 * remainingCal, Max(kPer100, 100))
    IN  IF isNaN(remainingCal) THEN NaN
        ELSE Max(50, Min(calculated, RoundMul(base, 1, Dbl(3, 2, 0))))

\* plan_type === 'daily' ? [...] : [...]   (plan_type = 'daily' by default)
\* the slate with the snack slot for every plan type
mealTypesAlwaysDaily(pt) == <<"breakfast", "lunch", "snack", "dinner">>

\* line 45: the meal-type slate of a plan type (plan_type defaults to 'daily')
mealTypesOf(pt) ==
    IF OrElse(pt, "daily") = "daily"
    THEN <<"breakfast", "lunch", "snack", "dinner">>
    ELSE <<"breakfast", "lunch", "dinner">>

-----------------------------------------------------------------------------
(* Inputs *)

\* longest catalog passed to buildPlan
MaxFoods == 3

Food(id, name, impact, tastes, qualities, energy, season, cal, prot, type) ==
    [food_id |-> id, name |-> name, dosha_impact |-> impact, tastes |-> tastes,
     qualities |-> qualities, energy |-> energy, season |-> season,
     calories_100g |-> 100 * cal, calories_per_100g |-> 0,
     protein_100g |-> prot, carbs_100g |-> 0,
     fat_100g |-> 0, notes |-> <<>>, type |-> type, id |-> <<>>, _id |-> None]

\* the food with its carbs_100g and fat_100g, in hundredths of a gram
WithCarbsFat(food, carbs, fat) ==
    [food EXCEPT !.carbs_100g = carbs, !.fat_100g = fat]

\* sampleFoods of tests/ruleEngine.test.js
MoongDal ==
  WithCarbsFat(
    Food(<<"f","_","0","3","5">>, <<"M","o","o","n","g"," ","D","a","l">>,
         <<"V","a","t","a",",","P","i","t","t","a",",","K","a","p","h","a",",",
           "B","a","l","a","n","c","i","n","g">>,
         <<"s","w","e","e","t",","," ","a","s","t","r","i","n","g","e","n","t">>,
         <<"l","i","g","h","t",","," ","d","r","y">>,
         S_cooling, S_all, 326, 2388, S_legume), 5259, 135)
Banana ==
  WithCarbsFat(
    Food(<<"e","_","1","7","1">>, <<"B","a","n","a","n","a">>,
         <<"V","a","t","a",",","P","i","t","t","a">>,
         S_sweet, <<"h","e","a","v","y",","," ","u","n","c","t","u","o","u","s">>,
         S_cooling, S_all, 111, 125, S_fruit), 2495, 32)
BasmatiRice ==
  WithCarbsFat(
    Food(<<"f","_","0","1","6">>, <<"B","a","s","m","a","t","i"," ","R","i","c","e">>,
         <<"V","a","t","a",",","P","i","t","t","a",",","K","a","p","h","a">>,
         S_sweet, <<"h","e","a","v","y",","," ","u","n","c","t","u","o","u","s">>,
         S_cooling, S_all, 356, 794, S_grain), 7824, 52)
BottleGourd ==
  WithCarbsFat(
    Food(<<"d","_","0","9","1">>, <<"B","o","t","t","l","e"," ","G","o","u","r","d">>,
         S_Pitta, S_sweet, <<"l","i","g","h","t",","," ","u","n","c","t","u","o","u","s">>,
         S_cooling, S_summer, 14, 42, S_vegetable), 253, 12)
Almond ==
  WithCarbsFat(
    Food(<<"f","_","2","2","3">>, <<"A","l","m","o","n","d">>,
         <<"V","a","t","a",",","P","i","t","t","a">>,
         S_sweet, <<"h","e","a","v","y",","," ","u","n","c","t","u","o","u","s">>,
         S_heating, S_all, 655, 2080, S_nut), 693, 5893)
\* a sweetener of the catalog's J group, typed by the seeding script's inferType
Jaggery ==
    Food(<<"j","_","0","0","5">>, <<"J","a","g","g","e","r","y">>,
         S_Kapha, S_sweet, S_heavy, S_heating, S_winter, 383, 40, S_sweetener)
\* a document of the database without food_id, type and calories, with
\* capitalised taste tags
RockSalt ==
    [Food(<<>>, <<"R","o","c","k"," ","S","a","l","t">>,
          <<>>, <<"S","a","l","t","y">>, <<>>, <<>>, <<>>, 0, 0, <<>>)
        EXCEPT !._id = Some(<<"6","5","f","0","c","0","f","f","e","e","0","0",
                              "0","0","0","0","0","0","0","0","0","0","0","a">>)]

FoodPool == <<MoongDal, BasmatiRice, Banana, Jaggery, RockSalt>>

\* sequences over S of length at most n
SeqUpTo(S, n) == UNION {[1..k -> S] : k \in 0..n}

Catalogs == SeqUpTo({FoodPool[k] : k \in DOMAIN FoodPool}, MaxFoods)

\* sampleProfile of tests/ruleEngine.test.js; the field disliked stands for
\* profile.preferences?.disliked
BaseProfile ==
    [dosha_result |-> Some(S_Pitta), age_years |-> Some(30), dob |-> None,
     sex |-> Some(S_M), height_cm |-> Some(175), weight_kg |-> Some(75),
     activity_level |-> Some(S_moderate), health_goals |-> <<S_maintain_health>>,
     allergies |-> <<>>, disliked |-> <<>>, medical_conditions |-> <<>>]

S_BANANA == <<"B","A","N","A","N","A">>
S_moong_dal == <<"m","o","o","n","g"," ","d","a","l">>

\* the profiles buildPlan is called with: the sample profile and variations
PlanProfiles ==
    { BaseProfile,
      [BaseProfile EXCEPT !.allergies = <<S_BANANA>>,
                          !.disliked = <<S_moong_dal>>],
      [BaseProfile EXCEPT !.medical_conditions = <<S_diabetes>>],
      [BaseProfile EXCEPT !.medical_conditions = <<S_hypertension>>],
      [BaseProfile EXCEPT !.dosha_result = None,
                          !.health_goals = <<S_weight_loss>>],
      [BaseProfile EXCEPT !.dosha_result = Some(S_Vata_Pitta),
                          !.health_goals = <<S_Weight_Gain>>,
                          !.medical_conditions = <<S_hypertension, S_diabetes>>,
                          !.disliked = <<S_BANANA>>] }

\* the other arguments of a call and the month it is made in
Call(pt, tc, m) == [plan_type |-> pt, targetCalories |-> tc, month |-> m]
Calls ==
    { Call(Some("daily"), None, 7),
      Call(Some("weekly"), Some(800), 1),
      Call(None, Some(1200), 4) }

-----------------------------------------------------------------------------
(* buildPlan *)

Init ==
    /\ profile \in PlanProfiles
    /\ foods \in Catalogs
    /\ \E c \in Calls :
          /\ plan_type = c.plan_type
          /\ targetCalories = c.targetCalories
          /\ month = c.month
    /\ pc = "start"
    /\ allowedFoods = <<>>
    /\ scored = <<>>
    /\ target = None
    /\ macroTargets = None
    /\ meals = <<>>
    /\ totalCals = 0
    /\ idx = 1
    /\ items = <<>>
    /\ kcal = 0
    /\ used = {}
    /\ pos = 1
    /\ pass1 = None
    /\ picks = <<>>
    /\ plan = None
    /\ served = <<>>
    /\ mealSplit = None
    /\ foodMacros = None

inputs == <<profile, foods, plan_type, targetCalories, month>>
calc == <<mealSplit, foodMacros>>
packer == <<items, kcal, used, pos, pass1>>

mealTypes == mealTypesOf(plan_type)
\* mealCalories[idx] and the meal type of the current slot
targetCal == distributeMealCalories(Get(target), Len(mealTypes))[idx]
mealType == mealTypes[idx]

\* the filter step normalising the caller's allergy list in place
FilterNormalisingProfile ==
    /\ pc = "start"
    /\ target' = Some(OrElse(targetCalories, calculateTargetCalories(profile)))
    /\ allowedFoods' = filterFrom(profile, foods, 1)
    /\ profile' = [profile EXCEPT !.allergies =
                       [k \in DOMAIN profile.allergies |->
                           toLowerCase(profile.allergies[k])]]
    /\ pc' = "filtered"
    /\ UNCHANGED <<foods, plan_type, targetCalories, month, calc, served, scored,
                   macroTargets, meals, totalCals, idx, packer, picks, plan>>

\* lines 11-29: resolve the target, filter the catalog
Filter ==
    /\ pc = "start"
    /\ target' = Some(OrElse(targetCalories, calculateTargetCalories(profile)))
    /\ allowedFoods' = filterFrom(profile, foods, 1)
    /\ pc' = "filtered"
    /\ UNCHANGED <<inputs, calc, served, scored, macroTargets, meals, totalCals, idx, packer,
                   picks, plan>>

\* lines 32-49: score and sort, macro targets, first slot
Score ==
    /\ pc = "filtered"
    /\ scored' = sortDesc([k \in DOMAIN allowedFoods |->
                              scoreEntry(profile, foods, month, allowedFoods[k])])
    /\ macroTargets' = Some(getMacroTargets(profile))
    /\ pc' = "pass1"
    /\ UNCHANGED <<inputs, calc, served, allowedFoods, target, meals, totalCals, idx, packer,
                   picks, plan>>

\* items.length >= maxItems || kcal >= targetCal * 1.1
loopBreak ==
    \/ Len(items) >= maxItemsOf(mealType)
    \/ GeqMul(kcal, targetCal, Dbl(11, 10, 16))

\* the item pushed for scored[pos] with the current running total
newItem ==
    LET f == foods[scored[pos].f]
        grams == calculatePortionSize(f, Minus(targetCal, kcal), mealType)
    IN  [f |-> scored[pos].f,
         grams |-> grams,
         \* Math.round((kPer100 * grams) / 100), kPer100 in hundredths
         k |-> IF isNaN(grams) THEN NaN ELSE RoundDiv(kPer100Of(f) * grams, 10000),
         macros |-> calculateFoodMacros(f, grams)]

\* the first loop without its test of the food type
pass1TakeAnyType(f, it) ==
    /\ usedKey(f) \notin used
    /\ LeqMul(Plus(kcal, it.k), targetCal, Dbl(23, 20, -16))

\* lines 207, 208 and 214: the first loop takes a food that is not yet used
\* in the slot, is of a preferred type and fits under targetCal * 1.15
pass1Take(f, it) ==
    LET preferred == mealPrefs(mealType)
    IN  /\ usedKey(f) \notin used
        /\ (preferred # <<>> => arrayIncludes(preferred, foodTypeOf(f)))
        /\ LeqMul(Plus(kcal, it.k), targetCal, Dbl(23, 20, -16))

\* one iteration of the first loop of pickFoodForMeal
Pass1Step ==
    /\ pc = "pass1"
    /\ pos <= Len(scored)
    /\ ~loopBreak
    /\ LET f == foods[scored[pos].f]
           it == newItem
           take == pass1Take(f, it)
       IN  /\ items' = IF take THEN Append(items, it) ELSE items
           /\ kcal' = IF take THEN Plus(kcal, it.k) ELSE kcal
           /\ used' = IF take THEN used \cup {usedKey(f)} ELSE used
    /\ pos' = pos + 1
    /\ UNCHANGED <<inputs, calc, served, pc, allowedFoods, scored, target, macroTargets, meals,
                   totalCals, idx, pass1, picks, plan>>

\* the first loop ends and the second always runs
Pass1ExitAlwaysTopUp ==
    /\ pc = "pass1"
    /\ (pos > Len(scored) \/ loopBreak)
    /\ pass1' = Some([n |-> Len(items), kcal |-> kcal, examined |-> pos - 1])
    /\ pc' = "pass2"
    /\ pos' = 1
    /\ UNCHANGED <<inputs, calc, served, allowedFoods, scored, target, macroTargets, meals,
                   totalCals, idx, items, kcal, used, picks, plan>>

\* the first loop ends; line 223 decides whether the second runs
Pass1Exit ==
    /\ pc = "pass1"
    /\ (pos > Len(scored) \/ loopBreak)
    /\ pass1' = Some([n |-> Len(items), kcal |-> kcal, examined |-> pos - 1])
    /\ pc' = IF Len(items) = 0 \/ LtMul(kcal, targetCal, Dbl(7, 10, -8))
             THEN "pass2" ELSE "push"
    /\ pos' = 1
    /\ UNCHANGED <<inputs, calc, served, allowedFoods, scored, target, macroTargets, meals,
                   totalCals, idx, items, kcal, used, picks, plan>>

\* the second loop without its used-key test
pass2TakeAny(f) == TRUE

\* the second loop takes every food that is not yet used in the slot
pass2Take(f) == usedKey(f) \notin used

\* one iteration of the second loop without the break of line 239
Pass2StepNoEarlyStop ==
    /\ pc = "pass2"
    /\ pos <= Len(scored)
    /\ ~loopBreak
    /\ LET f == foods[scored[pos].f]
           it == newItem
           take == pass2Take(f)
       IN  /\ items' = IF take THEN Append(items, it) ELSE items
           /\ kcal' = IF take THEN Plus(kcal, it.k) ELSE kcal
           /\ used' = IF take THEN used \cup {usedKey(f)} ELSE used
    /\ pos' = pos + 1
    /\ UNCHANGED <<inputs, calc, served, pc, allowedFoods, scored, target, macroTargets,
                   meals, totalCals, idx, pass1, picks, plan>>

\* one iteration of the second loop of pickFoodForMeal
Pass2Step ==
    /\ pc = "pass2"
    /\ pos <= Len(scored)
    /\ ~loopBreak
    /\ LET f == foods[scored[pos].f]
           it == newItem
           take == pass2Take(f)
       IN  /\ items' = IF take THEN Append(items, it) ELSE items
           /\ kcal' = IF take THEN Plus(kcal, it.k) ELSE kcal
           /\ used' = IF take THEN used \cup {usedKey(f)} ELSE used
           /\ pc' = IF take /\ GeqMul(Plus(kcal, it.k), targetCal, Dbl(9, 10, 4))
                    THEN "push" ELSE "pass2"
    /\ pos' = pos + 1
    /\ UNCHANGED <<inputs, calc, served, allowedFoods, scored, target, macroTargets, meals,
                   totalCals, idx, pass1, picks, plan>>

\* the second loop ends
Pass2Exit ==
    /\ pc = "pass2"
    /\ (pos > Len(scored) \/ loopBreak)
    /\ pc' = "push"
    /\ UNCHANGED <<inputs, calc, served, allowedFoods, scored, target, macroTargets, meals,
                   totalCals, idx, packer, picks, plan>>

\* the item of the plan built from a picked item (line 54); f is the
\* reference to the catalog food it was built from
planItem(it) ==
    [food_id |-> LET f == foods[it.f]
                 IN  \* f.food_id || f.id || (f._id ? String(f._id) : undefined)
                     IF f.food_id # <<>> THEN f.food_id
                     ELSE IF f.id # <<>> THEN f.id
                     ELSE IF IsSome(f._id) /\ Get(f._id) # <<>> THEN Get(f._id)
                     ELSE <<>>,
     name |-> foods[it.f].name,
     grams |-> it.grams, macros |-> it.macros, f |-> it.f]

\* the running total overwritten instead of accumulated
addMealTotalOverwrite(total, mealTotal) == mealTotal

\* totalCals += mealTotal
addMealTotal(total, mealTotal) == total + mealTotal

\* lines 54-69: the body of mealTypes.forEach after pickFoodForMeal returned
PushMeal ==
    /\ pc = "push"
    /\ LET its == [k \in DOMAIN items |-> planItem(items[k])]
           \* it.macros?.calories || 0
           mealTotal == SumSeq([k \in DOMAIN its |->
                                   IF isNaN(its[k].macros.calories) THEN 0
                                   ELSE its[k].macros.calories])
       IN  /\ totalCals' = addMealTotal(totalCals, mealTotal)
           /\ meals' = Append(meals, [meal_type |-> mealType, items |-> its,
                                      total_calories |-> mealTotal])
    /\ picks' = Append(picks, [items |-> items, kcal |-> kcal, pass1 |-> Get(pass1),
                               targetCal |-> targetCal])
    /\ idx' = idx + 1
    /\ pc' = IF idx < Len(mealTypes) THEN "pass1" ELSE "return"
    /\ items' = <<>>
    /\ kcal' = 0
    /\ used' = {}
    /\ pos' = 1
    /\ pass1' = None
    /\ UNCHANGED <<inputs, calc, served, allowedFoods, scored, target, macroTargets, plan>>

\* lines 72-80
Return ==
    /\ pc = "return"
    /\ plan' = Some([season |-> getSeasonFromMonth(month),
                     dosha_target |-> resolveDosha(profile),
                     target_calories |-> Get(target),
                     total_calories |-> totalCals,
                     macro_targets |-> Get(macroTargets),
                     meals |-> meals])
    /\ pc' = "done"
    /\ served' = Append(served, [args |-> inputs, plan |-> plan'])
    /\ UNCHANGED <<inputs, calc, allowedFoods, scored, target, macroTargets, meals,
                   totalCals, idx, packer, picks>>

Next ==
    \/ Filter
    \/ Score
    \/ Pass1Step
    \/ Pass1Exit
    \/ Pass2Step
    \/ Pass2Exit
    \/ PushMeal
    \/ Return

Spec == Init /\ [][Next]_vars

-----------------------------------------------------------------------------
(* buildPlan called with the test's sample catalog and with single foods, for
   users of every dosha and goal *)

\* foods tagged as balancing all three doshas, in the two spellings
Ghee ==
    Food(<<"k","_","0","0","7">>, <<"G","h","e","e">>,
         <<"T","r","i","d","o","s","h","i","c">>, S_sweet, S_unctuous, S_cooling,
         S_all, 883, 0, S_dairy)
Triphala ==
    Food(<<"g","_","0","4","2">>, <<"T","r","i","p","h","a","l","a">>,
         <<"T","R","I","D","O","S","H","A">>, S_astringent, S_dry, S_heating,
         S_all, 31, 0, S_spice)

\* sampleFoods of tests/ruleEngine.test.js, in their order
sampleFoods == <<MoongDal, BasmatiRice, BottleGourd, Banana, Almond>>

SampleCatalogs ==
    { sampleFoods,
      <<BottleGourd, Banana, RockSalt, MoongDal>>,
      <<Banana, BottleGourd, Almond, RockSalt>>,
      <<[Ghee EXCEPT !.dosha_impact = S_Vata_Pitta],
        [MoongDal EXCEPT !.dosha_impact =
            <<"P","i","t","t","a","-","K","a","p","h","a",","," ",
              "B","a","l","a","n","c","i","n","g">>]>> }
    \cup { <<f>> : f \in { MoongDal, BasmatiRice, BottleGourd, Banana, Almond,
                           Ghee, Triphala } }
    \cup { \* a legume of 100 kcal, a grain of 474 kcal and a vegetable: at
           \* lunch with target 420 the first two total 462 = 1.1 x 420
           <<Banana, [BasmatiRice EXCEPT !.calories_100g = 47400],
             [MoongDal EXCEPT !.calories_100g = 10000], BottleGourd, Almond>>,
           \* a fruit of 99 kcal, a fruit of 0.5 kcal per 100 g, and a grain
           \* whose calories are in calories_per_100g
           <<[Banana EXCEPT !.calories_100g = 9900],
             [Banana EXCEPT !.food_id = <<"e","_","9","0","1">>,
                            !.name = <<"L","e","m","o","n"," ","W","a","t","e","r">>,
                            !.calories_100g = 50],
             [BasmatiRice EXCEPT !.calories_100g = 0,
                                 !.calories_per_100g = 35600], Almond>> }
    \cup { \* foods without food_id: with id and _id, with _id, with neither
           <<[RockSalt EXCEPT !.id = <<"r","1">>], RockSalt,
             [RockSalt EXCEPT !._id = None,
                              !.name = <<"S","e","a"," ","S","a","l","t">>]>> }

SampleProfiles ==
    { [BaseProfile EXCEPT !.dosha_result = ds, !.health_goals = gl] :
        ds \in {None, Some(S_Vata), Some(S_Pitta), Some(S_Kapha), Some(S_Vata_Pitta),
                Some(S_Pitta_Kapha), Some(S_Vata_Kapha)},
        gl \in { <<>>, <<S_weight_loss>>, <<S_weight_gain>>, <<S_Weight_Gain>>,
                 <<S_muscle_gain>>, <<S_maintain_health>> } }

InitSample ==
    /\ profile \in SampleProfiles
    /\ foods \in SampleCatalogs
    /\ \E c \in Calls :
          /\ plan_type = c.plan_type
          /\ targetCalories = c.targetCalories
          /\ month = c.month
    /\ pc = "start"
    /\ allowedFoods = <<>>
    /\ scored = <<>>
    /\ target = None
    /\ macroTargets = None
    /\ meals = <<>>
    /\ totalCals = 0
    /\ idx = 1
    /\ items = <<>>
    /\ kcal = 0
    /\ used = {}
    /\ pos = 1
    /\ pass1 = None
    /\ picks = <<>>
    /\ plan = None
    /\ served = <<>>
    /\ mealSplit = None
    /\ foodMacros = None

SpecSample == InitSample /\ [][Next]_vars

-----------------------------------------------------------------------------
(* buildPlan called in each month of the year, with catalogs of seasonal
   foods *)

\* new Date().getMonth() + 1
Months == 1..12

SeasonCatalogs ==
    { <<BottleGourd, Jaggery, RockSalt, MoongDal>>,
      <<[Banana EXCEPT !.season = <<"S","p","r","i","n","g",","," ",
                                    "M","o","n","s","o","o","n">>],
        BottleGourd, BasmatiRice>>,
      <<BottleGourd>>,
      <<Jaggery, [Almond EXCEPT !.season = S_autumn], Banana>> }

InitSeason ==
    /\ profile \in {BaseProfile, [BaseProfile EXCEPT !.dosha_result = None]}
    /\ foods \in SeasonCatalogs
    /\ plan_type \in {Some("daily"), Some("weekly")}
    /\ targetCalories \in {None, Some(1200)}
    /\ month \in Months
    /\ pc = "start"
    /\ allowedFoods = <<>>
    /\ scored = <<>>
    /\ target = None
    /\ macroTargets = None
    /\ meals = <<>>
    /\ totalCals = 0
    /\ idx = 1
    /\ items = <<>>
    /\ kcal = 0
    /\ used = {}
    /\ pos = 1
    /\ pass1 = None
    /\ picks = <<>>
    /\ plan = None
    /\ served = <<>>
    /\ mealSplit = None
    /\ foodMacros = None

SpecSeason == InitSeason /\ [][Next]_vars

-----------------------------------------------------------------------------
(* buildPlan called several times by one process *)

\* most calls of buildPlan in one run
MaxCalls == 3

\* the arguments of the calls: two profiles, two catalogs, two plan types
CallArgs ==
    { <<pr, fs, c.plan_type, c.targetCalories, c.month>> :
        pr \in { BaseProfile,
                 [BaseProfile EXCEPT !.allergies = <<S_BANANA>>,
                                     !.disliked = <<S_moong_dal>>] },
        fs \in { <<MoongDal, Banana>>, <<Banana, Jaggery, BasmatiRice>> },
        c \in { Call(Some("daily"), None, 7), Call(Some("weekly"), Some(800), 1) } }

\* buildPlan is entered with the arguments a: every local is created anew
Enter(a) ==
    /\ profile' = a[1]
    /\ foods' = a[2]
    /\ plan_type' = a[3]
    /\ targetCalories' = a[4]
    /\ month' = a[5]
    /\ pc' = "start"
    /\ allowedFoods' = <<>>
    /\ scored' = <<>>
    /\ target' = None
    /\ macroTargets' = None
    /\ meals' = <<>>
    /\ totalCals' = 0
    /\ idx' = 1
    /\ items' = <<>>
    /\ kcal' = 0
    /\ used' = {}
    /\ pos' = 1
    /\ pass1' = None
    /\ picks' = <<>>
    /\ plan' = None

InitCalls ==
    /\ \E a \in CallArgs :
          /\ profile = a[1]
          /\ foods = a[2]
          /\ plan_type = a[3]
          /\ targetCalories = a[4]
          /\ month = a[5]
    /\ pc = "start"
    /\ allowedFoods = <<>>
    /\ scored = <<>>
    /\ target = None
    /\ macroTargets = None
    /\ meals = <<>>
    /\ totalCals = 0
    /\ idx = 1
    /\ items = <<>>
    /\ kcal = 0
    /\ used = {}
    /\ pos = 1
    /\ pass1 = None
    /\ picks = <<>>
    /\ plan = None
    /\ served = <<>>
    /\ mealSplit = None
    /\ foodMacros = None

\* after a call has returned, the process calls buildPlan again
NextCall ==
    /\ pc = "done"
    /\ Len(served) < MaxCalls
    /\ \E a \in CallArgs : Enter(a)
    /\ UNCHANGED <<calc, served>>

NextCalls ==
    \/ Next
    \/ NextCall

SpecCalls == InitCalls /\ [][NextCalls]_vars

-----------------------------------------------------------------------------
(* lib/validate.js *)

\* profileSchema.safeParse(p).success, for the fields the calculator reads
profileSchema(p) ==
    /\ IsSome(p.dosha_result) =>
          Get(p.dosha_result) \in {S_Vata, S_Pitta, S_Kapha, S_Vata_Pitta,
                                   S_Pitta_Kapha, S_Vata_Kapha}
    /\ IsSome(p.age_years) => (Get(p.age_years) >= 1 /\ Get(p.age_years) <= 120)
    /\ IsSome(p.sex) => Get(p.sex) \in {S_M, S_F, S_O}
    /\ IsSome(p.height_cm) => (Get(p.height_cm) >= 50 /\ Get(p.height_cm) <= 300)
    /\ IsSome(p.weight_kg) => (Get(p.weight_kg) >= 20 /\ Get(p.weight_kg) <= 300)
    /\ IsSome(p.activity_level) =>
          Get(p.activity_level) \in {S_sedentary, S_light, S_moderate, S_active}

-----------------------------------------------------------------------------
(* The nutrition calculator called on its own *)

S_athlete == <<"a","t","h","l","e","t","e">>
S_vata == <<"v","a","t","a">>

GoalLists ==
    { <<>>, <<S_maintain_health>>,
      <<S_weight_loss>>, <<S_Weight_Loss>>,
      <<S_weight_gain>>, <<S_Weight_Gain>>,
      <<S_muscle_gain>>, <<S_Muscle_Gain>>,
      <<S_muscle_gain, S_weight_loss>>, <<S_Weight_Gain, S_muscle_gain>>,
      <<S_Muscle_Gain, S_weight_gain>> }

\* profiles over the demographic fields, the activity level and the goals
DemographicProfiles ==
    { [BaseProfile EXCEPT !.sex = sx, !.age_years = ag, !.dob = db,
                          !.height_cm = ht, !.weight_kg = wt,
                          !.activity_level = al, !.health_goals = gl] :
        sx \in {None, Some(S_M), Some(S_F)},
        ag \in {None, Some(30), Some(120)},
        db \in {None, Some(40)},
        ht \in {None, Some(50), Some(175)},
        wt \in {None, Some(20), Some(75)},
        al \in {None, Some(S_sedentary), Some(S_light), Some(S_moderate),
                Some(S_active), Some(S_very_active), Some(S_athlete),
                Some(<<"c","o","n","s","t","r","u","c","t","o","r">>),
                Some(<<"_","_","p","r","o","t","o","_","_">>)},
        gl \in GoalLists }

\* profiles over the dosha and the goals
DoshaProfiles ==
    { [BaseProfile EXCEPT !.dosha_result = ds, !.health_goals = gl,
                          !.sex = sx, !.weight_kg = wt] :
        ds \in {None, Some(<<>>), Some(S_Vata), Some(S_Pitta), Some(S_Kapha),
                Some(S_Vata_Pitta), Some(S_Pitta_Kapha), Some(S_Vata_Kapha),
                Some(S_vata)},
        gl \in GoalLists,
        sx \in {Some(S_O)},
        wt \in {Some(75), Some(300)} }

NutritionProfiles == DemographicProfiles \cup DoshaProfiles

InitNutrition ==
    /\ profile \in NutritionProfiles
    /\ foods = <<>>
    /\ plan_type = None
    /\ targetCalories = None
    /\ month = 1
    /\ pc = "nutrition"
    /\ allowedFoods = <<>>
    /\ scored = <<>>
    /\ target = None
    /\ macroTargets = None
    /\ meals = <<>>
    /\ totalCals = 0
    /\ idx = 1
    /\ items = <<>>
    /\ kcal = 0
    /\ used = {}
    /\ pos = 1
    /\ pass1 = None
    /\ picks = <<>>
    /\ plan = None
    /\ served = <<>>
    /\ mealSplit = None
    /\ foodMacros = None

\* target = calculateTargetCalories(profile)
CalcTargetCalories ==
    /\ pc = "nutrition"
    /\ target = None
    /\ target' = Some(calculateTargetCalories(profile))
    /\ UNCHANGED <<inputs, calc, served, pc, allowedFoods, scored, macroTargets, meals, totalCals,
                   idx, packer, picks, plan>>

\* macroTargets = getMacroTargets(profile)
CalcMacroTargets ==
    /\ pc = "nutrition"
    /\ macroTargets = None
    /\ macroTargets' = Some(getMacroTargets(profile))
    /\ UNCHANGED <<inputs, calc, served, pc, allowedFoods, scored, target, meals, totalCals,
                   idx, packer, picks, plan>>

NextNutrition ==
    \/ CalcTargetCalories
    \/ CalcMacroTargets

SpecNutrition == InitNutrition /\ [][NextNutrition]_vars

-----------------------------------------------------------------------------
(* The calculator functions called on their own by a process that has built
   a plan *)

\* daily totals passed to distributeMealCalories
SplitTotals == {-128, 0, 1, 10, 90, 800, 1200, 2106, 2546, 2630, 2633, 3028, 5000}

\* meal counts passed to distributeMealCalories; None: the argument is left out
MealCounts == {None} \cup {Some(n) : n \in 0..6}

\* distributeMealCalories(totalCalories, mealCount = 3)
DistributeMealCalories ==
    /\ pc = "done"
    /\ mealSplit = None
    /\ \E tc \in SplitTotals : \E mc \in MealCounts :
          mealSplit' = Some([totalCalories |-> tc, mealCount |-> mc,
                             result |-> distributeMealCalories(tc, OrElse(mc, 3))])
    /\ UNCHANGED <<inputs, served, foodMacros, pc, allowedFoods, scored, target,
                   macroTargets, meals, totalCals, idx, packer, picks, plan>>

\* foods and gram amounts passed to calculateFoodMacros
MacroFoods == {MoongDal, BasmatiRice, BottleGourd, Banana, Almond, Jaggery, RockSalt}
GramAmounts == {1, 6, 10, 33, 35, 50, 70, 75, 94, 100, 114, 125, 150, 188, 200, 225}

\* calculateFoodMacros(food, grams) and calculateFoodMacros(food, 2 * grams)
CalcFoodMacros ==
    /\ pc = "done"
    /\ foodMacros = None
    /\ \E food \in MacroFoods : \E g \in GramAmounts :
          foodMacros' = Some([food |-> food, grams |-> g,
                              once |-> calculateFoodMacros(food, g),
                              twice |-> calculateFoodMacros(food, 2 * g)])
    /\ UNCHANGED <<inputs, served, mealSplit, pc, allowedFoods, scored, target,
                   macroTargets, meals, totalCals, idx, packer, picks, plan>>

NextCalc ==
    \/ Next
    \/ DistributeMealCalories
    \/ CalcFoodMacros

SpecCalc == InitCalls /\ [][NextCalc]_vars

-----------------------------------------------------------------------------
(* Properties of buildPlan (specification Spec) *)

\* the meal slots of the returned plan; none before buildPlan has returned
planMeals == IF IsSome(plan) THEN Get(plan).meals ELSE <<>>

\* the key that identifies the food of an item of the plan: the food_id of
\* the catalog food, or its name when it has no food_id
itemKey(it) == usedKey(foods[it.f])

\* C1: no item in any meal slot of the returned plan has a name that equals,
\* ignoring case, an entry of profile.allergies.
AllergenNeverInPlan ==
    \A m \in DOMAIN planMeals : \A k \in DOMAIN planMeals[m].items :
        \A a \in DOMAIN profile.allergies :
            toLowerCase(planMeals[m].items[k].name)
                # toLowerCase(profile.allergies[a])

\* a plan with items was returned for a catalog holding a food whose name
\* matches an allergy entry only when case is ignored
AllergenFilteredOut ==
    /\ IsSome(plan)
    /\ \E i \in DOMAIN foods : \E a \in DOMAIN profile.allergies :
          /\ toLowerCase(foods[i].name) = toLowerCase(profile.allergies[a])
          /\ foods[i].name # profile.allergies[a]
    /\ \E m \in DOMAIN planMeals : planMeals[m].items # <<>>

\* C2: a food whose name matches a disliked entry, and that is neither an
\* allergen nor contraindicated, is retained in the candidate list, and is
\* scored with its weighted score less the preference penalty of 2.
DislikedRetainedAndPenalised ==
    \A i \in DOMAIN foods :
        ( /\ toLowerCase(foods[i].name) \in lowerSet(profile.disliked)
          /\ toLowerCase(foods[i].name) \notin lowerSet(profile.allergies)
          /\ ~isContra(profile, foods[i]) )
        => /\ pc \in {"filtered", "pass1", "pass2", "push", "return", "done"}
              => \E k \in DOMAIN allowedFoods : allowedFoods[k] = i
           /\ pc \in {"pass1", "pass2", "push", "return", "done"}
              => \E k \in DOMAIN scored :
                    /\ scored[k].f = i
                    /\ scored[k].score2 = 3 * scored[k].reasons.sDosha2
                                          + scored[k].reasons.sSeason2
                                          + scored[k].reasons.sNut2 - 4

\* C3: when the profile carries "diabetes", no item of the returned plan has
\* an identifier whose prefix the catalog's type map assigns to 'sweetener'.
DiabetesExcludesSweeteners ==
    arrayIncludes(profile.medical_conditions, S_diabetes)
    => \A m \in DOMAIN planMeals : \A k \in DOMAIN planMeals[m].items :
          inferType(planMeals[m].items[k].food_id) # S_sweetener

\* C4: when the profile carries "hypertension", no item of the returned plan
\* is a food whose taste tags (comma-separated, trimmed, lower-cased, as the
\* scorer reads them) include salty.
HypertensionExcludesSalty ==
    arrayIncludes(profile.medical_conditions, S_hypertension)
    => \A m \in DOMAIN planMeals : \A k \in DOMAIN planMeals[m].items :
          ~arrayIncludes(tagList(foods[planMeals[m].items[k].f].tastes), S_salty)

\* C5: the returned plan has exactly the slots breakfast, lunch, snack, dinner
\* in this order when plan_type is 'daily' (the value an absent plan_type
\* defaults to), and exactly breakfast, lunch, dinner for any other plan_type.
MealSlateByPlanType ==
    IsSome(plan)
    => [m \in DOMAIN planMeals |-> planMeals[m].meal_type]
          = IF plan_type = None \/ plan_type = Some("daily")
            THEN <<"breakfast", "lunch", "snack", "dinner">>
            ELSE <<"breakfast", "lunch", "dinner">>

\* a weekly plan was returned with three slots, none of them empty
WeeklyPlanReturned ==
    /\ IsSome(plan)
    /\ plan_type = Some("weekly")
    /\ Len(planMeals) = 3
    /\ \A m \in DOMAIN planMeals : planMeals[m].items # <<>>

\* C6: plan.total_calories is the sum of the slots' total_calories, and each
\* slot's total_calories is the sum of macros.calories over the slot's items.
TotalsAreSums ==
    IsSome(plan)
    => /\ Get(plan).total_calories
            = SumSeq([m \in DOMAIN planMeals |-> planMeals[m].total_calories])
       /\ \A m \in DOMAIN planMeals :
             planMeals[m].total_calories
                = SumSeq([k \in DOMAIN planMeals[m].items |->
                             planMeals[m].items[k].macros.calories])

\* a plan was returned in which two slots have a positive total and one slot
\* has two items with positive calories
SeveralSlotsSummed ==
    /\ IsSome(plan)
    /\ \E m, n \in DOMAIN planMeals :
          /\ m # n
          /\ planMeals[m].total_calories > 0
          /\ planMeals[n].total_calories > 0
    /\ \E m \in DOMAIN planMeals : \E j, k \in DOMAIN planMeals[m].items :
          /\ j # k
          /\ planMeals[m].items[j].macros.calories > 0
          /\ planMeals[m].items[k].macros.calories > 0

\* C7: within one meal slot of the returned plan no two items have the same
\* key (food_id, or name when there is no food_id), whichever pass chose them.
NoRepeatWithinSlot ==
    \A m \in DOMAIN planMeals : \A j, k \in DOMAIN planMeals[m].items :
        j # k => itemKey(planMeals[m].items[j]) # itemKey(planMeals[m].items[k])

\* a plan was returned with a slot that both passes added items to
BothPassesFilledASlot ==
    /\ IsSome(plan)
    /\ \E m \in DOMAIN planMeals :
          /\ picks[m].pass1.n >= 1
          /\ Len(planMeals[m].items) > picks[m].pass1.n

\* C11: when the catalog is empty (or missing, which (foods || []) reads as
\* empty) or every food of it is removed by the filter (its name is in the
\* disliked or the allergy list, or it is contraindicated), the returned plan
\* has the full slate of its plan type, every slot has no items and
\* total_calories 0, and plan.total_calories is 0.
NoCandidatesGiveEmptyPlan ==
    ( /\ IsSome(plan)
      /\ \A i \in DOMAIN foods :
            \/ toLowerCase(foods[i].name) \in lowerSet(profile.disliked)
            \/ toLowerCase(foods[i].name) \in lowerSet(profile.allergies)
            \/ isContra(profile, foods[i]) )
    => /\ Len(planMeals) = IF plan_type = None \/ plan_type = Some("daily")
                           THEN 4 ELSE 3
       /\ \A m \in DOMAIN planMeals :
             /\ planMeals[m].items = <<>>
             /\ planMeals[m].total_calories = 0
       /\ Get(plan).total_calories = 0

\* a plan was returned for a catalog of several foods, all removed by the filter
AllFoodsFilteredPlanReturned ==
    /\ IsSome(plan)
    /\ Len(foods) >= 2
    /\ allowedFoods = <<>>
    /\ Len(planMeals) = 4

\* C13: every item in every slot of the returned plan has a portion between
\* 50 g and 200 g inclusive.
PortionsWithin50To200 ==
    \A m \in DOMAIN planMeals : \A k \in DOMAIN planMeals[m].items :
        /\ planMeals[m].items[k].grams >= 50
        /\ planMeals[m].items[k].grams <= 200

\* C26: for every slot, the calorie total the packer accumulates while
\* selecting (the value it compares with target x 0.7, 0.9, 1.1 and 1.15)
\* equals the sum of the selected items' macros.calories that is reported as
\* the slot's total_calories, also for foods whose calories_100g is 0 or
\* missing.
PackerTotalIsReportedTotal ==
    \A m \in DOMAIN picks :
        /\ picks[m].kcal = meals[m].total_calories
        /\ picks[m].kcal = SumSeq([k \in DOMAIN meals[m].items |->
                                     meals[m].items[k].macros.calories])

-----------------------------------------------------------------------------
(* Properties of the scorer and the packer (specification SpecSample) *)

\* the running total of a slot at the moment its j-th item was selected
totalBefore(its, j) == SumSeq([i \in 1..(j - 1) |-> its[i].k])

\* buildPlan is past its scoring step
Scored == pc \in {"pass1", "pass2", "push", "return", "done"}

\* C15: a food's score is 3 x (dosha-impact + taste + quality + energy terms)
\* + season term + nutrition term - preference penalty; Bottle Gourd (impact
\* 'Pitta', sweet, cooling, season 'summer', 14 kcal, protein 0.42 g) scored
\* for a Pitta user without goals in the monsoon has the dosha score 1.5, the
\* season term 0 and the score 4.5.  (Scores are kept doubled.)
ScoreIsWeightedSum ==
    Scored =>
      \A k \in DOMAIN scored :
        LET e == scored[k]
            f == foods[e.f]
            ud == resolveDosha(profile)
            rasas == tagList(f.tastes)
            gunas == tagList(f.qualities)
        IN  /\ e.reasons.sDosha2
                 = impactScore2(ud, f.dosha_impact)
                   + SumSeq([i \in DOMAIN rasas |-> rasaScore2(ud, rasas[i])])
                   + SumSeq([i \in DOMAIN gunas |-> gunaScore2(ud, gunas[i])])
                   + viryaScore2(ud, f.energy)
            /\ e.score2 = 3 * e.reasons.sDosha2 + e.reasons.sSeason2
                             + e.reasons.sNut2
                             - (IF toLowerCase(f.name) \in lowerSet(profile.disliked)
                                THEN 4 ELSE 0)
            /\ ( /\ f = BottleGourd
                 /\ profile.dosha_result = Some(S_Pitta)
                 /\ profile.health_goals = <<>>
                 /\ getSeasonFromMonth(month) = S_monsoon )
               => /\ e.reasons.sDosha2 = 3
                  /\ e.reasons.sSeason2 = 0
                  /\ e.reasons.sNut2 = 0
                  /\ e.score2 = 9

\* Bottle Gourd has been scored for a Pitta user without goals in the monsoon
BottleGourdScoredForPitta ==
    /\ Scored
    /\ profile.dosha_result = Some(S_Pitta)
    /\ profile.health_goals = <<>>
    /\ month = 7
    /\ \E k \in DOMAIN scored :
          foods[scored[k].f] = BottleGourd /\ scored[k].score2 = 9

\* C18: in the dosha-impact term a food receives +1 whenever its dosha-impact
\* tags include "Balancing" or "Tridoshic" in any letter case, for every user
\* dosha.  (The term is the dosha score without its taste, quality and energy
\* terms and without the -0.5 for a tag naming the user's dosha; doubled.)
BalancingOrTridoshicGainsOne ==
    Scored =>
      \A k \in DOMAIN scored :
        LET e == scored[k]
            f == foods[e.f]
            ud == resolveDosha(profile)
            rasas == tagList(f.tastes)
            gunas == tagList(f.qualities)
            impact == toLowerCase(f.dosha_impact)
            bonus2 == e.reasons.sDosha2
                        - SumSeq([i \in DOMAIN rasas |-> rasaScore2(ud, rasas[i])])
                        - SumSeq([i \in DOMAIN gunas |-> gunaScore2(ud, gunas[i])])
                        - viryaScore2(ud, f.energy)
                        + (IF includes(f.dosha_impact, ud) THEN 1 ELSE 0)
        IN  ( \/ includes(impact, <<"b","a","l","a","n","c","i","n","g">>)
              \/ includes(impact, <<"t","r","i","d","o","s","h","i","c">>) )
            => bonus2 = 2

\* C19: in the nutrition term, whenever the goals include muscle_gain or
\* weight_gain, a food with protein >= 15 g/100g gains +1.5 and a food with
\* calories > 200 per 100 g gains +0.5, in addition to the goal-independent
\* +0.5 for protein >= 8 g/100g.  (Doubled; the weight-loss bonuses are those
\* of the goals weight_loss and 'Weight Loss'.)
GainGoalsFavourProteinAndCalories ==
    Scored =>
      \A k \in DOMAIN scored :
        LET e == scored[k]
            f == foods[e.f]
            goals == profile.health_goals
            loss2 == IF arrayIncludes(goals, S_weight_loss)
                        \/ arrayIncludes(goals, S_Weight_Loss)
                     THEN (IF f.protein_100g >= 1000 THEN 2 ELSE 0)
                          + (IF f.calories_100g < 15000 THEN 1 ELSE 0)
                     ELSE 0
        IN  (arrayIncludes(goals, S_muscle_gain) \/ arrayIncludes(goals, S_weight_gain))
            => e.reasons.sNut2 - loss2
                 = (IF f.protein_100g >= 1500 THEN 3 ELSE 0)
                   + (IF f.calories_100g > 20000 THEN 1 ELSE 0)
                   + (IF f.protein_100g >= 800 THEN 1 ELSE 0)

\* C20: every meal slot holds at most 2 items when its meal type is snack and
\* at most 3 items otherwise, counting the items added by pass 1 and pass 2
\* together; this holds of the slot being filled, of the slots filled and of
\* the plan returned.
SlotItemsCapped ==
    /\ pc \in {"pass1", "pass2", "push"} => Len(items) <= (IF mealType = "snack" THEN 2 ELSE 3)
    /\ \A m \in DOMAIN meals :
          Len(meals[m].items) <= (IF meals[m].meal_type = "snack" THEN 2 ELSE 3)
    /\ \A m \in DOMAIN planMeals :
          Len(planMeals[m].items) <= (IF planMeals[m].meal_type = "snack" THEN 2 ELSE 3)

\* a plan over five allowed foods whose snack slot holds 2 items, the second
\* added by pass 2, and one of whose other slots holds 3 items
SnackAndMainSlotsFull ==
    /\ pc = "done"
    /\ Len(allowedFoods) = 5
    /\ \E m \in DOMAIN planMeals :
          /\ planMeals[m].meal_type = "snack"
          /\ Len(planMeals[m].items) = 2
          /\ picks[m].pass1.n < 2
    /\ \E m \in DOMAIN planMeals :
          /\ planMeals[m].meal_type # "snack"
          /\ Len(planMeals[m].items) = 3

\* C21: pass 1 adds a food only if its category is in the slot's allow-list
\* and only if the running total plus the food's portion calories is at most
\* target x 1.15; hence at the end of pass 1 the running total is at most
\* target x 1.15; and pass 1 examines no further food once the item cap is
\* reached or the running total is at least the double-precision product
\* targetCal * 1.1, which for some targets (420: 462.00000000000006) lies
\* just above target x 1.1, so that a running total equal to target x 1.1
\* does not stop pass 1 there.
Pass1AllowListAndCeiling ==
    /\ [][pc = "pass1" =>
            /\ items' # items =>
                  LET it == items'[Len(items')]
                  IN  /\ items' = Append(items, it)
                      /\ arrayIncludes(mealPrefs(mealType), foodTypeOf(foods[it.f]))
                      /\ kcal' = kcal + it.k
                      /\ 20 * kcal' <= 23 * targetCal
            /\ (Len(items) >= (IF mealType = "snack" THEN 2 ELSE 3)
                    \/ GeqMul(kcal, targetCal, Dbl(11, 10, 16)))
                  => (pc' # "pass1" /\ items' = items)]_vars
    /\ [](\A m \in DOMAIN picks : 20 * picks[m].pass1.kcal <= 23 * picks[m].targetCal)

\* C21 as stated: the allow-list, the ceiling, and pass 1 examining no
\* further food once the item cap is reached or the running total is at
\* least target x 1.1 in exact arithmetic
Pass1StopsAtExactThreshold ==
    [][pc = "pass1" =>
          /\ items' # items =>
                LET it == items'[Len(items')]
                IN  /\ items' = Append(items, it)
                    /\ arrayIncludes(mealPrefs(mealType), foodTypeOf(foods[it.f]))
                    /\ kcal' = kcal + it.k
                    /\ 20 * kcal' <= 23 * targetCal
          /\ (Len(items) >= (IF mealType = "snack" THEN 2 ELSE 3)
                  \/ 10 * kcal >= 11 * targetCal)
                => (pc' # "pass1" /\ items' = items)]_vars

\* pass 1 of a slot has passed over a food outside the allow-list, taken a
\* food and rejected a food of the allow-list for the ceiling, after pass 1 of
\* an earlier slot stopped with candidates left and pass 1 of an earlier slot
\* added a food when its running total was exactly target x 1.1
Pass1RejectedAndStoppedEarly ==
    /\ pc = "pass1"
    /\ \E m \in DOMAIN picks : \E j \in 2..picks[m].pass1.n :
          10 * totalBefore(picks[m].items, j) = 11 * picks[m].targetCal
    /\ Len(items) >= 1
    /\ \E k \in 1..(pos - 1) :
          /\ usedKey(foods[scored[k].f]) \notin used
          /\ ~arrayIncludes(mealPrefs(mealType), foodTypeOf(foods[scored[k].f]))
    /\ \E k \in 1..(pos - 1) :
          /\ usedKey(foods[scored[k].f]) \notin used
          /\ arrayIncludes(mealPrefs(mealType), foodTypeOf(foods[scored[k].f]))
    /\ \E m \in DOMAIN picks : picks[m].pass1.examined < Len(scored)

\* C22: pass 2 adds items only if pass 1 ended with zero items or with a
\* running total below target x 0.7; consequently a slot that contains a food
\* whose category is outside the slot's allow-list is always a slot where
\* pass 1 ended empty or under 70% of the slot target.
Pass2OnlyAfterShortPass1 ==
    /\ [][(pc = "pass2" /\ items' # items) =>
             /\ IsSome(pass1)
             /\ (Get(pass1).n = 0 \/ 10 * Get(pass1).kcal < 7 * targetCal)]_vars
    /\ [](\A m \in DOMAIN picks :
             ( \/ Len(picks[m].items) > picks[m].pass1.n
               \/ \E k \in DOMAIN picks[m].items :
                     ~arrayIncludes(mealPrefs(meals[m].meal_type),
                                    foodTypeOf(foods[picks[m].items[k].f])) )
             => (picks[m].pass1.n = 0 \/ 10 * picks[m].pass1.kcal < 7 * picks[m].targetCal))

\* a filled slot whose pass 1 took a food but stayed under 70% of the target,
\* and to which pass 2 added a food outside the allow-list
ToppedUpOutsideAllowList ==
    \E m \in DOMAIN picks :
        /\ picks[m].pass1.n >= 1
        /\ 10 * picks[m].pass1.kcal < 7 * picks[m].targetCal
        /\ \E k \in DOMAIN picks[m].items :
              /\ k > picks[m].pass1.n
              /\ ~arrayIncludes(mealPrefs(meals[m].meal_type),
                                 foodTypeOf(foods[picks[m].items[k].f]))

\* C23: in pass 2 the packer walks the whole score-sorted list ignoring
\* categories, skips foods already used in the slot, adds each remaining food
\* without any ceiling check, and adds no further item once the item cap is
\* reached, the running total is at least target x 1.1 (the double product
\* targetCal * 1.1), or an item just added has brought the running total to
\* at least target x 0.9.
Pass2AddsUntilStop ==
    [][pc = "pass2" =>
         LET stop == \/ Len(items) >= (IF mealType = "snack" THEN 2 ELSE 3)
                     \/ GeqMul(kcal, targetCal, Dbl(11, 10, 16))
             more == pos <= Len(scored) /\ ~stop
             f == foods[scored[pos].f]
         IN  /\ (more /\ usedKey(f) \in used)
                   => (items' = items /\ kcal' = kcal /\ pos' = pos + 1 /\ pc' = "pass2")
             /\ (more /\ usedKey(f) \notin used)
                   => /\ Len(items') = Len(items) + 1
                      /\ items'[Len(items')].f = scored[pos].f
                      /\ kcal' = kcal + items'[Len(items')].k
                      /\ pos' = pos + 1
                      /\ pc' = IF 10 * kcal' >= 9 * targetCal THEN "push" ELSE "pass2"
             /\ ~more => (items' = items /\ kcal' = kcal /\ pc' = "push")]_vars

\* pass 2 has skipped the food pass 1 took, added a food outside the
\* allow-list and stopped for the 90% rule below the cap, with a candidate
\* left
Pass2StoppedAtNinetyPercent ==
    /\ pc = "push"
    /\ Get(pass1).n >= 1
    /\ Len(items) > Get(pass1).n
    /\ Len(items) < maxItemsOf(mealType)
    /\ 10 * kcal >= 9 * targetCal
    /\ 10 * kcal < 11 * targetCal
    /\ pos <= Len(scored)
    /\ \E k \in 1..(pos - 2) : scored[k].f = items[1].f
    /\ ~arrayIncludes(mealPrefs(mealType), foodTypeOf(foods[items[Len(items)].f]))

\* the upper clamp of a meal type: 1.5 x 120, 150, 80 and 130 g
gramsCap(mt) ==
    IF mt = "breakfast" THEN 180
    ELSE IF mt = "lunch" THEN 225
    ELSE IF mt = "snack" THEN 120
    ELSE 195

\* C24: every item's grams equal remainingCalories / max(caloriesPer100g, 1)
\* x 100, rounded to the nearest gram and then clamped to [50, base x 1.5],
\* where remaining is the slot target minus the running total at the moment
\* of selection and caloriesPer100g is the food's calories_100g, else its
\* calories_per_100g, else 100 (a value of 0 counts as missing); so grams lie
\* in [50, 180], [50, 225], [50, 120] and [50, 195] for breakfast, lunch,
\* snack and dinner, also when the remaining calories are zero or negative.
\* (Calories per 100 g are in hundredths of a kcal.)
GramsRoundedAndClamped ==
    \A m \in DOMAIN picks : \A j \in DOMAIN picks[m].items :
        LET it == picks[m].items[j]
            f == foods[it.f]
            k100 == IF f.calories_100g # 0 THEN f.calories_100g
                    ELSE IF f.calories_per_100g # 0 THEN f.calories_per_100g
                    ELSE 10000
            divisor == IF k100 > 100 THEN k100 ELSE 100
            rem == picks[m].targetCal - totalBefore(picks[m].items, j)
            cap == gramsCap(meals[m].meal_type)
        IN  /\ it.grams \in 50..cap
            /\ it.grams > 50 => 20000 * rem >= (2 * it.grams - 1) * divisor
            /\ it.grams < cap => 20000 * rem < (2 * it.grams + 1) * divisor

\* filled slots with an item selected when nothing remained of the target
\* (50 g), an item at the upper clamp, and two items between the clamps: one
\* of a food under 1 kcal per 100 g (the divisor is 1) and one of a food whose
\* calories are read from calories_per_100g
PortionsAtBothClampsAndBetween ==
    /\ \E m \in DOMAIN picks : \E j \in DOMAIN picks[m].items :
          /\ picks[m].targetCal - totalBefore(picks[m].items, j) <= 0
          /\ picks[m].items[j].grams = 50
    /\ \E m \in DOMAIN picks : \E j \in DOMAIN picks[m].items :
          picks[m].items[j].grams = gramsCap(meals[m].meal_type)
    /\ \E m \in DOMAIN picks : \E j \in DOMAIN picks[m].items :
          /\ foods[picks[m].items[j].f].calories_100g \in 1..99
          /\ picks[m].items[j].grams > 50
          /\ picks[m].items[j].grams < gramsCap(meals[m].meal_type)
    /\ \E m \in DOMAIN picks : \E j \in DOMAIN picks[m].items :
          /\ foods[picks[m].items[j].f].calories_100g = 0
          /\ foods[picks[m].items[j].f].calories_per_100g # 0
          /\ picks[m].items[j].grams > 50
          /\ picks[m].items[j].grams < gramsCap(meals[m].meal_type)

\* C24 as stated: within the clamps the grams are the exact quotient
\* remainingCalories / caloriesPer100g x 100
GramsExactQuotient ==
    \A m \in DOMAIN picks : \A j \in DOMAIN picks[m].items :
        LET it == picks[m].items[j]
            k100 == kPer100Of(foods[it.f])
            rem == picks[m].targetCal - totalBefore(picks[m].items, j)
            cap == gramsCap(meals[m].meal_type)
        IN  /\ it.grams \in 50..cap
            /\ (it.grams > 50 /\ it.grams < cap) => it.grams * k100 = 10000 * rem
            /\ it.grams = 50 => 10000 * rem <= 50 * k100
            /\ it.grams = cap => 10000 * rem >= cap * k100

\* C27: a slot's accumulated calories exceed target x 1.15 only if pass 2
\* added at least one item to that slot; a slot filled by pass 1 alone never
\* exceeds target x 1.15.
OverCeilingOnlyAfterPass2 ==
    /\ \A m \in DOMAIN picks :
          20 * picks[m].kcal > 23 * picks[m].targetCal
          => Len(picks[m].items) > picks[m].pass1.n
    /\ (pc \in {"pass1", "pass2", "push"} /\ 20 * kcal > 23 * targetCal)
          => (IsSome(pass1) /\ Len(items) > Get(pass1).n)

\* a slot over target x 1.15: pass 1 rejected a food of the allow-list, and
\* pass 2 added it at the minimum portion of 50 g
DenseFoodAddedByPass2 ==
    \E m \in DOMAIN picks :
        /\ 20 * picks[m].kcal > 23 * picks[m].targetCal
        /\ picks[m].pass1.n = 0
        /\ picks[m].pass1.examined >= 1
        /\ Len(picks[m].items) = 1
        /\ picks[m].items[1].grams = 50
        /\ arrayIncludes(mealPrefs(meals[m].meal_type),
                          foodTypeOf(foods[picks[m].items[1].f]))

\* the dual blends of the validation schema
DualDoshas == {<<"V","a","t","a","-","P","i","t","t","a">>,
               <<"P","i","t","t","a","-","K","a","p","h","a">>,
               <<"V","a","t","a","-","K","a","p","h","a">>}

\* C28: for a profile whose dosha is a dual blend that the validation layer
\* accepts (Vata-Pitta, Pitta-Kapha, Vata-Kapha), the taste, quality and
\* energy adjustments of every food are 0 and the aggravation penalty applies
\* only if the food's dosha-impact string contains the whole dual literal, so
\* a food's dosha score is its Balancing bonus (0 or 1), minus 0.5 in the
\* literal-match case; getMacroTargets treats the same profile as its first
\* substring-matched single dosha.  (Scores are kept doubled.)
DualDoshaScoredByBonusOnly ==
    (Scored /\ IsSome(profile.dosha_result) /\ Get(profile.dosha_result) \in DualDoshas) =>
      LET dual == Get(profile.dosha_result)
          first == IF dual = <<"P","i","t","t","a","-","K","a","p","h","a">>
                   THEN <<"P","i","t","t","a">> ELSE <<"V","a","t","a">>
      IN  /\ profileSchema(profile)
          /\ \A k \in DOMAIN scored :
                LET f == foods[scored[k].f]
                    rasas == tagList(f.tastes)
                    gunas == tagList(f.qualities)
                    impact == toLowerCase(f.dosha_impact)
                    bonus2 == IF includes(impact, <<"b","a","l","a","n","c","i","n","g">>)
                                 \/ includes(impact, <<"t","r","i","d","o","s","h","a">>)
                              THEN 2 ELSE 0
                IN  /\ \A i \in DOMAIN rasas : rasaScore2(dual, rasas[i]) = 0
                    /\ \A i \in DOMAIN gunas : gunaScore2(dual, gunas[i]) = 0
                    /\ viryaScore2(dual, f.energy) = 0
                    /\ scored[k].reasons.sDosha2
                          = bonus2 - (IF includes(f.dosha_impact, dual) THEN 1 ELSE 0)
          /\ macroTargets
                = Some(getMacroTargets([profile EXCEPT !.dosha_result = Some(first)]))

\* a Vata-Pitta user without goals: a food tagged 'Vata-Pitta' scored -0.5 in
\* the dosha bucket, a Balancing food scored 1, and the macro targets of Vata
DualLiteralPenalised ==
    /\ Scored
    /\ profile.dosha_result = Some(S_Vata_Pitta)
    /\ profile.health_goals = <<>>
    /\ macroTargets = Some(MacroTriple(20, 50, 30))
    /\ \E k \in DOMAIN scored :
          /\ foods[scored[k].f].dosha_impact = S_Vata_Pitta
          /\ foods[scored[k].f].tastes # <<>>
          /\ scored[k].reasons.sDosha2 = -1
    /\ \E k \in DOMAIN scored :
          /\ foods[scored[k].f].energy = S_cooling
          /\ scored[k].reasons.sDosha2 = 2

-----------------------------------------------------------------------------
(* Properties of the season (specification SpecSeason) *)

\* C25: the season used by buildPlan is a total function of the current
\* month: months 3-5 give spring, 6-8 monsoon, 9-11 autumn and 12, 1, 2 winter;
\* a food's season term is 0.5 if it is tagged 'all' or its season tags
\* include that season, and 0 otherwise, also when it has no season tag.
\* (Terms are kept doubled.)
SeasonByQuarterAndSeasonTerm ==
    LET season == IF month \in {3, 4, 5} THEN <<"s","p","r","i","n","g">>
                  ELSE IF month \in {6, 7, 8} THEN <<"m","o","n","s","o","o","n">>
                  ELSE IF month \in {9, 10, 11} THEN <<"a","u","t","u","m","n">>
                  ELSE <<"w","i","n","t","e","r">>
    IN  /\ month \in 1..12
        /\ IsSome(plan) => Get(plan).season = season
        /\ Scored =>
              \A k \in DOMAIN scored :
                LET tags == tagList(foods[scored[k].f].season)
                    tagged == {tags[i] : i \in DOMAIN tags}
                IN  scored[k].reasons.sSeason2
                      = IF <<"a","l","l">> \in tagged \/ season \in tagged THEN 1 ELSE 0

\* a plan returned in July (monsoon) over a food tagged 'Spring, Monsoon' with
\* the term 0.5 and a food tagged 'summer' with the term 0
MonsoonPlanWithSeasonalFoods ==
    /\ pc = "done"
    /\ month = 7
    /\ Get(plan).season = S_monsoon
    /\ \E k \in DOMAIN scored :
          /\ includes(foods[scored[k].f].season, <<"M","o","n","s","o","o","n">>)
          /\ scored[k].reasons.sSeason2 = 1
    /\ \E k \in DOMAIN scored :
          /\ foods[scored[k].f].season = S_summer
          /\ scored[k].reasons.sSeason2 = 0

\* C30: the month-to-season mapping never yields 'summer', so a food whose
\* season tags are exactly 'summer' receives a season term of 0 in every month
\* of the year, and its score is the same in all twelve months.
SummerFoodScoresAlike ==
    /\ IsSome(plan) => Get(plan).season # S_summer
    /\ Scored =>
          \A k \in DOMAIN scored :
            toLowerCase(trim(foods[scored[k].f].season)) = <<"s","u","m","m","e","r">>
            => /\ scored[k].reasons.sSeason2 = 0
               /\ \A m \in 1..12 :
                     scoreEntry(profile, foods, m, scored[k].f).score2 = scored[k].score2

\* Bottle Gourd (season 'summer') scored in July for a Pitta user: season
\* term 0 and score 4.5, next to a food whose season term is 0.5
BottleGourdInJuly ==
    /\ Scored
    /\ month = 7
    /\ profile.dosha_result = Some(S_Pitta)
    /\ \E k \in DOMAIN scored :
          /\ foods[scored[k].f] = BottleGourd
          /\ scored[k].reasons.sSeason2 = 0
          /\ scored[k].score2 = 9
    /\ \E k \in DOMAIN scored : scored[k].reasons.sSeason2 = 1

-----------------------------------------------------------------------------
(* Properties of repeated calls (specification SpecCalls) *)

\* C12: while a call of buildPlan runs, the caller's catalog and profile stay
\* as they are, and two calls with the same arguments (in the same month)
\* return the same plan, whatever calls were made before or between them.
CallsLeaveNoTrace ==
    /\ [][pc # "done" => (foods' = foods /\ profile' = profile)]_vars
    /\ [](\A i, j \in DOMAIN served :
             served[i].args = served[j].args => served[i].plan = served[j].plan)

\* the first and the third call had the same arguments, the second call had
\* another profile and another catalog, and the plans returned have items
SameCallAfterAnother ==
    /\ Len(served) = 3
    /\ served[1].args = served[3].args
    /\ served[2].args[1] # served[1].args[1]
    /\ served[2].args[2] # served[1].args[2]
    /\ served[1].args[1].allergies # <<>>
    /\ \E m \in DOMAIN Get(served[3].plan).meals :
          Get(served[3].plan).meals[m].items # <<>>

-----------------------------------------------------------------------------
(* Properties of the calculator functions (specification SpecCalc) *)

\* C14: distributeMealCalories returns, slot by slot, Math.round of the total
\* times 0.25, 0.35, 0.10, 0.30 for four meals, times 0.30, 0.40, 0.30 for
\* three meals and for every count other than 3, 4 and 5 (also a count left
\* out), and times 0.20, 0.30, 0.10, 0.30, 0.10 for five meals; the slots of a
\* plan are packed against these values of the plan's target, four of them
\* for a daily plan and three otherwise.
SlotTargetsFollowTable ==
    /\ IsSome(mealSplit) =>
          LET T == Get(mealSplit).totalCalories
              n == Get(mealSplit).mealCount
              r(c) == RoundMul(T, 1, c)
          IN  Get(mealSplit).result
                = IF n = Some(4)
                  THEN << r(Dbl(1, 4, 0)), r(Dbl(7, 20, -4)), r(Dbl(1, 10, 1)),
                          r(Dbl(3, 10, -2)) >>
                  ELSE IF n = Some(5)
                  THEN << r(Dbl(1, 5, 2)), r(Dbl(3, 10, -2)), r(Dbl(1, 10, 1)),
                          r(Dbl(3, 10, -2)), r(Dbl(1, 10, 1)) >>
                  ELSE << r(Dbl(3, 10, -2)), r(Dbl(2, 5, 4)), r(Dbl(3, 10, -2)) >>
    /\ IsSome(plan) =>
          LET T == Get(plan).target_calories
              r(c) == RoundMul(T, 1, c)
          IN  [m \in DOMAIN picks |-> picks[m].targetCal]
                = IF plan_type = None \/ plan_type = Some("daily")
                  THEN << r(Dbl(1, 4, 0)), r(Dbl(7, 20, -4)), r(Dbl(1, 10, 1)),
                          r(Dbl(3, 10, -2)) >>
                  ELSE << r(Dbl(3, 10, -2)), r(Dbl(2, 5, 4)), r(Dbl(3, 10, -2)) >>

\* a daily plan was returned, and distributeMealCalories was called with a
\* count of 6 and returned the three-meal split of 2630
SixMealsFallBack ==
    /\ IsSome(plan)
    /\ Len(picks) = 4
    /\ IsSome(mealSplit)
    /\ Get(mealSplit).mealCount = Some(6)
    /\ Get(mealSplit).result = <<789, 1052, 789>>

\* C17: for every food with non-negative per-100g values and every gram amount
\* g, calculateFoodMacros(food, 2g) is twice calculateFoodMacros(food, g) within
\* rounding: the calories differ by at most 1, and protein, carbs and fats,
\* which are numbers of one decimal, each by at most one tenth when counted in
\* tenths.
DoublingWithinOneStep ==
    IsSome(foodMacros) =>
        LET r == Get(foodMacros)
        IN  /\ Abs(r.twice.calories - 2 * r.once.calories) <= 1
            /\ Abs(r.twice.protein - 2 * r.once.protein) <= 1
            /\ Abs(r.twice.carbs - 2 * r.once.carbs) <= 1
            /\ Abs(r.twice.fats - 2 * r.once.fats) <= 1

\* Moong Dal at 35 g and 70 g: 114 kcal against 228, protein 8.4 against 16.7
MoongDalDoubled ==
    /\ IsSome(foodMacros)
    /\ Get(foodMacros).food = MoongDal
    /\ Get(foodMacros).grams = 35
    /\ Get(foodMacros).once.protein = 84
    /\ Get(foodMacros).twice.protein = 167

\* C17 as stated: Math.abs(twice.x - 2 * once.x) <= 0.1 on the returned
\* numbers, for protein, carbs and fats, and at most 1 for the calories
DoublingWithinTenthOfGram ==
    IsSome(foodMacros) =>
        LET r == Get(foodMacros)
        IN  /\ Abs(r.twice.calories - 2 * r.once.calories) <= 1
            /\ AbsDiffDoubleLeqTenth(r.twice.protein, r.once.protein)
            /\ AbsDiffDoubleLeqTenth(r.twice.carbs, r.once.carbs)
            /\ AbsDiffDoubleLeqTenth(r.twice.fats, r.once.fats)

-----------------------------------------------------------------------------
(* Properties of the nutrition calculator (specification SpecNutrition) *)

\* C8: for every profile profileSchema accepts (set or defaulted fields),
\* calculateTargetCalories returns a strictly positive number.
TargetCaloriesPositive ==
    (pc = "nutrition" /\ IsSome(target) /\ profileSchema(profile))
    => (~isNaN(Get(target)) /\ Get(target) > 0)

\* C9: calculateTargetCalories returns round(TDEE * m), m chosen by the first
\* matching goal in the order weight_loss (0.8), weight_gain (1.15),
\* muscle_gain (1.1), else 1, each goal being recognised in its underscore
\* and in its title-case spelling.
GoalFactorInBothSpellings ==
    (pc = "nutrition" /\ IsSome(target))
    => LET goals == profile.health_goals
           tdee == calculateTDEE(profile)
           has(a, b) == arrayIncludes(goals, a) \/ arrayIncludes(goals, b)
       IN  Get(target)
             = IF has(S_weight_loss, S_Weight_Loss)
               THEN RoundMul(tdee, 1, Dbl(4, 5, 8))
               ELSE IF has(S_weight_gain, S_Weight_Gain)
               THEN RoundMul(tdee, 1, Dbl(23, 20, -16))
               ELSE IF has(S_muscle_gain, S_Muscle_Gain)
               THEN RoundMul(tdee, 1, Dbl(11, 10, 16))
               ELSE tdee

\* C29: for every goal list, calculateTargetCalories applies the weight-loss
\* deficit (x 0.8) if and only if getMacroTargets returns the weight-loss
\* split 30/40/30.  (For a TDEE above 2 the target shows the deficit: it
\* equals round(TDEE x 0.8), which is then below the TDEE.)
DeficitIffWeightLossSplit ==
    (pc = "nutrition" /\ IsSome(target) /\ IsSome(macroTargets)
        /\ ~isNaN(calculateTDEE(profile)) /\ calculateTDEE(profile) > 2)
    => ( Get(target) = RoundMul(calculateTDEE(profile), 1, Dbl(4, 5, 8))
           <=> Get(macroTargets) = [protein |-> 30, carbs |-> 40, fats |-> 30] )

\* C16: for a profile with sex, age, height and weight and without a goal
\* that adjusts the target, calculateTargetCalories returns the TDEE
\* round(BMR * factor), BMR = 10 weight + 6.25 height - 5 age + (5 for sex
\* 'M', else -161), factor 1.2, 1.375, 1.55, 1.725, 1.9 by activity level and
\* 1.55 for a missing level and for every level that is none of the five
\* (a name of Object.prototype included); for the test's sample profile
\* (75 kg, 175 cm, 30 years, 'M', moderate) BMR is 1698.75 and both values
\* are 2633.  (BMR is written times four.)
BmrAndTdeeFormula ==
    ( /\ pc = "nutrition"
      /\ IsSome(target)
      /\ profile.health_goals \in {<<>>, <<S_maintain_health>>}
      /\ IsSome(profile.sex) /\ IsSome(profile.age_years)
      /\ IsSome(profile.height_cm) /\ IsSome(profile.weight_kg) )
    => LET bmr4 == 40 * Get(profile.weight_kg) + 25 * Get(profile.height_cm)
                   - 20 * Get(profile.age_years)
                   + (IF Get(profile.sex) = S_M THEN 20 ELSE -644)
           level == profile.activity_level
           factor == IF level = Some(S_sedentary) THEN Dbl(6, 5, -8)
                     ELSE IF level = Some(S_light) THEN Dbl(11, 8, 0)
                     ELSE IF level = Some(S_active) THEN Dbl(69, 40, 16)
                     ELSE IF level = Some(S_very_active) THEN Dbl(19, 10, -16)
                     ELSE Dbl(31, 20, 8)
       IN  /\ Get(target) = RoundMul(bmr4, 4, factor)
           /\ profile = BaseProfile => (bmr4 = 6795 /\ Get(target) = 2633)

\* C10: the three percentages returned by getMacroTargets sum to exactly 100.
MacroTargetsSumTo100 ==
    IsSome(macroTargets)
    => Get(macroTargets).protein + Get(macroTargets).carbs
          + Get(macroTargets).fats = 100

\* getMacroTargets has returned for a Kapha profile without a macro-setting goal
KaphaMacroTargetsReturned ==
    /\ pc = "nutrition"
    /\ IsSome(macroTargets)
    /\ profile.dosha_result = Some(S_Kapha)
    /\ profile.health_goals = <<>>
    /\ Get(macroTargets).protein = 25

=============================================================================
